---- MODULE Spec2Model ----
(***************************************************************************)
(* Download core of DownLoadMCP: DownloadManager (task state machine) and  *)
(* MultiThreadDownloader (probe, segment workers, merge, progress timer).  *)
(*                                                                         *)
(* The main thread is single-threaded JavaScript: every action below is    *)
(* the code that runs between two awaits of one handler.  Worker threads   *)
(* run in parallel and take their own steps.                               *)
(*                                                                         *)
(* Environment: file-system calls (mkdir, writeFile, unlink) succeed; a    *)
(* readFile of a missing file fails.  HTTP requests may fail.  The resume  *)
(* directory is empty: no code path calls ResumeManager.saveResumeData, so *)
(* ResumeManager.canResume always finds no record and returns false.       *)
(***************************************************************************)
EXTENDS Integers, Sequences, FiniteSets, TLC

\* tasks       DownloadManager.tasks: per task id its status and progress
\* downloaders DownloadManager.downloaders: per task id the registered
\*             downloader (an index into runs[t]) or NoDownloader
\* runs        per task id the startDownload invocations made for it, each
\*             with the MultiThreadDownloader it constructs
\* parts       the part files on disk: <<task, segment index>> -> content
\* outFile     the output files on disk: task -> content
\* ops         pauseDownload/cancelDownload calls waiting for the downloader
\* creating    createDownloadTask calls waiting for saveTask before they
\*             call startDownload
\* rejected    the most recent manager call that threw before doing
\*             anything: the call and its error, or NoCall
\* calc        a call of one of the pure functions of the program: its name,
\*             its arguments and, once it has returned, its result
\* storage     TaskStorage and initializeManager: the storage's map of
\*             tasks, its isInitialized flag, the tasks file on disk, and
\*             how far the initialization has got.  Only the restart
\*             specification follows the persisted copies of the tasks
\* resumeFiles the resume files on disk: task -> content.  Only
\*             ResumeManager.saveResumeData writes them, and no operation of
\*             DownloadManager or MultiThreadDownloader calls it
VARIABLES tasks, downloaders, runs, parts, outFile, ops, creating, rejected, calc,
          resumeFiles, storage

vars == <<tasks, downloaders, runs, parts, outFile, ops, creating, rejected, calc,
          resumeFiles, storage>>

\* ---- bounds of the model ----
MaxTasks == 1
MaxStarts == 1
MaxStartsR == 2
FileSize == 2
ChunkSize == 1
MaxConcurrency == 1
MaxTasksQ == 6
MaxStartsQ == 6
MaxConcurrencyS == 2

\* Set-Cookie headers one session receives.
MaxCookies == 2

\* Largest maxRedirects option and longest chain of redirects a server answers.
MaxRedirectsOption == 3

MaxChain == 6

\* Tasks in the registry that list_downloads reads, and its largest limit
\* and offset arguments.
MaxListed == 4

MaxLimit == 3

MaxOffset == 3

\* Progress events of one download that are saved.
MaxProgressSaves == 3

\* ---- program constants ----
maxConcurrentTasks == 5

\* Default of DownloadConfigSchema.retryCount.
retryCount == 3

PENDING == "pending"
DOWNLOADING == "downloading"
PAUSED == "paused"
COMPLETED == "completed"
FAILED == "failed"
CANCELLED == "cancelled"

DownloadStatus == {PENDING, DOWNLOADING, PAUSED, COMPLETED, FAILED, CANCELLED}

WorkModes == {"blocking", "non_blocking", "persistent", "temporary"}

NoDownloader == 0

NoCall == [call |-> "none", error |-> "none", status |-> "none"]

NoCalc == [fn |-> "none"]
\* A tasks file: `valid` is false while the file is empty or partly written
\* (JSON.parse throws), otherwise `tasks` gives the status of each task in it.
NoFile == [valid |-> FALSE, tasks |-> <<>>]
NoStorage ==
  [tasks |-> <<>>, isInitialized |-> FALSE, file |-> NoFile, pc |-> "none",
   todo |-> <<>>, persisted |-> <<>>]

\* ---- helpers ----
Min(a, b) == IF a < b THEN a ELSE b

CeilDiv(a, b) == (a + b - 1) \div b

RECURSIVE SumDownloaded(_)
SumDownloaded(segs) ==
  IF segs = <<>> THEN 0
  ELSE Head(segs).downloaded + SumDownloaded(Tail(segs))

\* The remote resource: the byte at offset i-1 has value i (0 marks a hole
\* in a local file).
ServerBytes(size) == [i \in 1..size |-> i]

\* Body of a ranged GET for the inclusive offsets start..end.
RangeBody(start, end) == [k \in 1..(end - start + 1) |-> start + k]

\* A positional write of data at offset pos into file content f.
WriteAt(f, pos, data) ==
  LET newLen == IF Len(f) > pos + Len(data) THEN Len(f) ELSE pos + Len(data)
  IN [k \in 1..newLen |->
        IF k > pos /\ k <= pos + Len(data) THEN data[k - pos]
        ELSE IF k <= Len(f) THEN f[k] ELSE 0]

\* Removal of files from a file map.
Unlink(fm, keys) == [p \in (DOMAIN fm) \ keys |-> fm[p]]

\* Creation or replacement of a file.
PutFile(fm, key, data) == [p \in (DOMAIN fm) \cup {key} |-> IF p = key THEN data ELSE fm[p]]

PartLen(key) == IF key \in DOMAIN parts THEN Len(parts[key]) ELSE 0

\* MultiThreadDownloader.calculateSegments
calculateSegments(totalSize, maxConcurrency, chunkSize) ==
  LET segmentCount == Min(maxConcurrency, CeilDiv(totalSize, chunkSize))
      segmentSize == totalSize \div segmentCount
  IN [k \in 1..segmentCount |->
        LET i == k - 1
            start == i * segmentSize
        IN [start |-> start,
            end |-> IF i = segmentCount - 1 THEN totalSize - 1 ELSE start + segmentSize - 1,
            downloaded |-> 0,
            status |-> PENDING]]

\* The write stream on an output path: created, opened in the background,
\* holding the data written to it but not yet to the file.
NoStream == [created |-> FALSE, open |-> FALSE, buf |-> <<>>, pos |-> 0]

\* A startDownload invocation and the MultiThreadDownloader it constructs.
NewRun ==
  [pc |-> "update",
   isActive |-> FALSE, isPaused |-> FALSE, isCancelled |-> FALSE,
   totalSize |-> 0, downloadedSize |-> 0,
   segments |-> <<>>, workers |-> <<>>,
   mergeIdx |-> 0, out |-> NoStream, evtPending |-> FALSE]

TaskIds == 1..Len(tasks)

RunIds == UNION {{<<t, k>> : k \in 1..Len(runs[t])} : t \in TaskIds}

Run(r) == runs[r[1]][r[2]]

RECURSIVE TotalLen(_)
TotalLen(seqs) == IF seqs = <<>> THEN 0 ELSE Len(Head(seqs)) + TotalLen(Tail(seqs))

\* Number of startDownload invocations made so far.
Starts == TotalLen(runs)

ActiveTasks == Cardinality({t \in TaskIds : tasks[t].status = DOWNLOADING})

SetStatus(ts, t, s) == [ts EXCEPT ![t].status = s]

Init ==
  /\ tasks = <<>>
  /\ downloaders = <<>>
  /\ runs = <<>>
  /\ parts = <<>>
  /\ outFile = <<>>
  /\ ops = {}
  /\ creating = {}
  /\ rejected = NoCall
  /\ resumeFiles = <<>>
  /\ storage = NoStorage
  /\ calc = NoCalc

\* ---- DownloadManager ----

\* startDownload with a concurrency check that is off by one.
CanStart_m(t) ==
  /\ tasks[t].status \in {PENDING, PAUSED}
  /\ ~(ActiveTasks > maxConcurrentTasks)

\* startDownload up to its first await: the state check, the concurrency
\* check and the synchronous switch to DOWNLOADING.
CanStart(t) ==
  /\ tasks[t].status \in {PENDING, PAUSED}
  /\ ~(ActiveTasks >= maxConcurrentTasks)

StartSync(t) ==
  /\ tasks' = SetStatus(tasks, t, DOWNLOADING)
  /\ runs' = [runs EXCEPT ![t] = Append(@, NewRun)]

\* createDownloadTask up to `await this.taskStorage.saveTask(task)`.  Only
\* the blocking and non_blocking modes go on to startDownload.
createDownloadTask(workMode, maxTasks) ==
  /\ Len(tasks) < maxTasks
  /\ tasks' = Append(tasks, [status |-> PENDING,
                             progress |-> [totalSize |-> 0, downloadedSize |-> 0]])
  /\ downloaders' = Append(downloaders, NoDownloader)
  /\ runs' = Append(runs, <<>>)
  /\ creating' = IF workMode \in {"blocking", "non_blocking"}
                 THEN creating \cup {Len(tasks) + 1}
                 ELSE creating
  /\ UNCHANGED <<parts, outFile, ops>>
  /\ UNCHANGED <<calc, rejected, resumeFiles, storage>>

\* createDownloadTask after saveTask: the call of startDownload, whose
\* rejection leaves the state as it is.
createSaved(t, maxStarts) ==
  /\ t \in creating
  /\ creating' = creating \ {t}
  /\ IF CanStart(t)
     THEN Starts < maxStarts /\ StartSync(t)
     ELSE UNCHANGED <<tasks, runs>>
  /\ UNCHANGED <<downloaders, parts, outFile, ops>>
  /\ UNCHANGED <<calc, rejected, resumeFiles, storage>>

\* startDownload called on an existing task.
startDownload(t, maxStarts) ==
  /\ t \in TaskIds
  /\ CanStart(t)
  /\ Starts < maxStarts
  /\ StartSync(t)
  /\ UNCHANGED <<downloaders, parts, outFile, ops, creating>>
  /\ UNCHANGED <<calc, rejected, resumeFiles, storage>>

\* resumeDownload: requires PAUSED, then startDownload.
resumeDownload(t, maxStarts) ==
  /\ t \in TaskIds
  /\ tasks[t].status = PAUSED
  /\ CanStart(t)
  /\ Starts < maxStarts
  /\ StartSync(t)
  /\ UNCHANGED <<downloaders, parts, outFile, ops, creating>>
  /\ UNCHANGED <<calc, rejected, resumeFiles, storage>>

\* pauseDownload.  MultiThreadDownloader.pause returns at once when the
\* downloader is not active or already paused, and has no await when it has
\* no workers; otherwise the call waits for worker.terminate().
pauseDownload(t) ==
  /\ t \in TaskIds
  /\ tasks[t].status = DOWNLOADING
  /\ LET d == downloaders[t] IN
       IF d = NoDownloader \/ ~runs[t][d].isActive \/ runs[t][d].isPaused
       THEN /\ tasks' = SetStatus(tasks, t, PAUSED)
            /\ UNCHANGED <<runs, ops>>
       ELSE IF \A i \in DOMAIN runs[t][d].workers : ~runs[t][d].workers[i].inArray
       THEN /\ runs' = [runs EXCEPT ![t][d].isPaused = TRUE]
            /\ tasks' = SetStatus(tasks, t, PAUSED)
            /\ UNCHANGED ops
       ELSE /\ runs' = [runs EXCEPT ![t][d].isPaused = TRUE]
            /\ ops' = ops \cup {[kind |-> "pause", task |-> t, run |-> d]}
            /\ UNCHANGED tasks
  /\ UNCHANGED <<downloaders, parts, outFile, creating>>
  /\ UNCHANGED <<calc, rejected, resumeFiles, storage>>

\* A rejected call with the task marked Failed, as the catch block of
\* startDownload would do.
Reject_m(call, error, t) ==
  /\ rejected' = [call |-> call, error |-> error, status |-> tasks[t].status]
  /\ tasks' = SetStatus(tasks, t, FAILED)
  /\ UNCHANGED <<downloaders, runs, parts, outFile, ops, creating, calc, resumeFiles, storage>>

\* A call of startDownload, pauseDownload or resumeDownload that throws in
\* its checks, before any assignment: the caller gets the error, and
\* `rejected` records the call, the error and the status the task had.
Reject(call, error, t) ==
  /\ rejected' = [call |-> call, error |-> error, status |-> tasks[t].status]
  /\ UNCHANGED <<tasks, downloaders, runs, parts, outFile, ops, creating, calc, resumeFiles, storage>>

\* startDownload on a task that is not PENDING or PAUSED, or while
\* maxConcurrentTasks tasks are DOWNLOADING.
startRejected(t) ==
  /\ t \in TaskIds
  /\ ~CanStart(t)
  /\ Reject("startDownload",
            IF tasks[t].status \in {PENDING, PAUSED} THEN "QueueFull" ELSE "InvalidState",
            t)

\* pauseDownload on a task that is not DOWNLOADING.
pauseRejected(t) ==
  /\ t \in TaskIds
  /\ tasks[t].status # DOWNLOADING
  /\ Reject("pauseDownload", "InvalidState", t)

\* resumeDownload on a task that is not PAUSED, or whose startDownload
\* throws.
resumeRejected(t) ==
  /\ t \in TaskIds
  /\ tasks[t].status # PAUSED \/ ~CanStart(t)
  /\ Reject("resumeDownload",
            IF tasks[t].status # PAUSED THEN "InvalidState" ELSE "QueueFull",
            t)

\* worker.terminate() of every worker in this.workers, and this.workers = [].
Terminated(ws) ==
  [i \in DOMAIN ws |->
     IF ws[i].inArray
     THEN [pc |-> "terminated", downloaded |-> 0, msgs |-> <<>>, inArray |-> FALSE,
           full |-> FALSE, attempts |-> ws[i].attempts]
     ELSE ws[i]]

\* pauseDownload after `await downloader.pause()`.
pauseDone(op) ==
  /\ op \in ops
  /\ op.kind = "pause"
  /\ ops' = ops \ {op}
  /\ runs' = [runs EXCEPT ![op.task][op.run].workers = Terminated(@)]
  /\ tasks' = SetStatus(tasks, op.task, PAUSED)
  /\ UNCHANGED <<downloaders, parts, outFile, creating>>
  /\ UNCHANGED <<calc, rejected, resumeFiles, storage>>

\* The part files MultiThreadDownloader.cleanupTempFiles unlinks.
TempFiles(t, d) == {<<t, i - 1>> : i \in DOMAIN runs[t][d].segments}

\* cancelDownload.  MultiThreadDownloader.cancel has no await when the
\* downloader has neither workers nor segments.
cancelDownload(t) ==
  /\ t \in TaskIds
  /\ LET d == downloaders[t] IN
       IF d = NoDownloader
       THEN /\ tasks' = SetStatus(tasks, t, CANCELLED)
            /\ UNCHANGED <<runs, ops, downloaders>>
       ELSE IF runs[t][d].segments = <<>>
       THEN /\ runs' = [runs EXCEPT ![t][d].isCancelled = TRUE, ![t][d].isActive = FALSE]
            /\ downloaders' = [downloaders EXCEPT ![t] = NoDownloader]
            /\ tasks' = SetStatus(tasks, t, CANCELLED)
            /\ UNCHANGED ops
       ELSE /\ runs' = [runs EXCEPT ![t][d].isCancelled = TRUE, ![t][d].isActive = FALSE]
            /\ ops' = ops \cup {[kind |-> "cancel", task |-> t, run |-> d]}
            /\ UNCHANGED <<tasks, downloaders>>
  /\ UNCHANGED <<parts, outFile, creating>>
  /\ UNCHANGED <<calc, rejected, resumeFiles, storage>>

\* cancelDownload after `await downloader.cancel()`: the workers are
\* terminated, the part files unlinked, the registry entry deleted.
cancelDone(op) ==
  /\ op \in ops
  /\ op.kind = "cancel"
  /\ ops' = ops \ {op}
  /\ runs' = [runs EXCEPT ![op.task][op.run].workers = Terminated(@)]
  /\ parts' = Unlink(parts, TempFiles(op.task, op.run))
  /\ downloaders' = [downloaders EXCEPT ![op.task] = NoDownloader]
  /\ tasks' = SetStatus(tasks, op.task, CANCELLED)
  /\ UNCHANGED <<outFile, creating>>
  /\ UNCHANGED <<calc, rejected, resumeFiles, storage>>

\* setupDownloaderEvents: the synchronous part of the 'error' and
\* 'completed' handlers; downloaders.delete follows the awaited updateTask.
OnError(ts, r) == SetStatus(ts, r[1], FAILED)

OnCompleted(ts, r) == SetStatus(ts, r[1], COMPLETED)

\* The 'progress' handler.
OnProgress(ts, r) ==
  [ts EXCEPT ![r[1]].progress =
     [totalSize |-> Run(r).totalSize, downloadedSize |-> Run(r).downloadedSize]]

\* The tail of the 'completed' and 'error' handlers.
handlerDone(r) ==
  /\ r \in RunIds
  /\ Run(r).evtPending
  /\ runs' = [runs EXCEPT ![r[1]][r[2]].evtPending = FALSE]
  /\ downloaders' = [downloaders EXCEPT ![r[1]] = NoDownloader]
  /\ UNCHANGED <<tasks, parts, outFile, ops, creating>>
  /\ UNCHANGED <<calc, rejected, resumeFiles, storage>>

\* ---- MultiThreadDownloader ----

\* startDownload after `await this.taskStorage.updateTask(task)`: canResume
\* is false, the downloader is constructed and registered, its events are
\* wired, and start() runs up to the HEAD request of getFileInfo.
updateDone(r) ==
  /\ r \in RunIds
  /\ Run(r).pc = "update"
  /\ downloaders' = [downloaders EXCEPT ![r[1]] = r[2]]
  /\ runs' = [runs EXCEPT ![r[1]][r[2]].pc = "probe",
                          ![r[1]][r[2]].isActive = TRUE,
                          ![r[1]][r[2]].isPaused = FALSE,
                          ![r[1]][r[2]].isCancelled = FALSE]
  /\ UNCHANGED <<tasks, parts, outFile, ops, creating>>
  /\ UNCHANGED <<calc, rejected, resumeFiles, storage>>

\* start() after getFileInfo, for a configuration with the given
\* maxConcurrency.  A failed probe is caught by start(), which emits
\* 'error'.  Otherwise the download is segmented when the server accepts
\* ranges and the file is larger than chunkSize, else single-stream.
headReturnsN(r, resp, size, maxConcurrency) ==
  /\ r \in RunIds
  /\ Run(r).pc = "probe"
  /\ IF resp = "fail"
     THEN /\ runs' = [runs EXCEPT ![r[1]][r[2]].pc = "done",
                                  ![r[1]][r[2]].isActive = FALSE,
                                  ![r[1]][r[2]].evtPending = TRUE]
          /\ tasks' = OnError(tasks, r)
     ELSE IF resp = "range" /\ size > ChunkSize
     THEN /\ runs' = [runs EXCEPT ![r[1]][r[2]].pc = "mkdir",
                         ![r[1]][r[2]].totalSize = size,
                         ![r[1]][r[2]].segments =
                            calculateSegments(size, maxConcurrency, ChunkSize)]
          /\ UNCHANGED tasks
     ELSE /\ runs' = [runs EXCEPT ![r[1]][r[2]].pc = "fetch",
                                  ![r[1]][r[2]].totalSize = size]
          /\ UNCHANGED tasks
  /\ UNCHANGED <<downloaders, parts, outFile, ops, creating>>
  /\ UNCHANGED <<calc, rejected, resumeFiles, storage>>

\* The same with maxConcurrency = MaxConcurrency.
headReturns(r, resp, size) == headReturnsN(r, resp, size, MaxConcurrency)

\* createDownloadWorker: the worker is pushed to this.workers and sent its
\* segment; it issues its one GET, which asks for
\* Range: bytes=segment.start-segment.end.  `full` tells that the response
\* carries the whole resource, `attempts` counts the GETs issued.
NewWorker ==
  [pc |-> "fetch", downloaded |-> 0, msgs |-> <<>>, inArray |-> TRUE,
   full |-> FALSE, attempts |-> 1]

RangeFrom(seg) == seg.start

RangeTo(seg) == seg.end

\* startMultiThreadDownload after `await fs.mkdir`: one worker per segment,
\* the progress timer, then `await Promise.all(promises)`.
mkdirDone(r) ==
  /\ r \in RunIds
  /\ Run(r).pc = "mkdir"
  /\ runs' = [runs EXCEPT ![r[1]][r[2]].pc = "workers",
                ![r[1]][r[2]].workers = [i \in DOMAIN Run(r).segments |-> NewWorker]]
  /\ UNCHANGED <<tasks, downloaders, parts, outFile, ops, creating>>
  /\ UNCHANGED <<calc, rejected, resumeFiles, storage>>

\* Worker thread: the response of its GET arrives.  A failure is posted as
\* an 'error' message; otherwise the part file is opened for writing, which
\* truncates it.
workerResponse(r, i, ok) ==
  /\ r \in RunIds
  /\ i \in DOMAIN Run(r).workers
  /\ Run(r).workers[i].pc = "fetch"
  /\ IF ok
     THEN /\ runs' = [runs EXCEPT ![r[1]][r[2]].workers[i].pc = "read"]
          /\ parts' = PutFile(parts, <<r[1], i - 1>>, <<>>)
     ELSE /\ runs' = [runs EXCEPT ![r[1]][r[2]].workers[i].pc = "idle",
                        ![r[1]][r[2]].workers[i].msgs =
                           Append(@, [type |-> "error", downloaded |-> 0])]
          /\ UNCHANGED parts
  /\ UNCHANGED <<tasks, downloaders, outFile, ops, creating>>
  /\ UNCHANGED <<calc, rejected, resumeFiles, storage>>

\* Worker thread: the server answers the ranged GET with status 200 and
\* the whole resource.  response.ok is true for every 2xx status, so the
\* worker goes on as for a 206.
workerResponse200(r, i) ==
  /\ r \in RunIds
  /\ i \in DOMAIN Run(r).workers
  /\ Run(r).workers[i].pc = "fetch"
  /\ runs' = [runs EXCEPT ![r[1]][r[2]].workers[i].pc = "read",
                          ![r[1]][r[2]].workers[i].full = TRUE]
  /\ parts' = PutFile(parts, <<r[1], i - 1>>, <<>>)
  /\ UNCHANGED <<tasks, downloaders, outFile, ops, creating>>
  /\ UNCHANGED <<calc, rejected, resumeFiles, storage>>

\* Worker thread: one reader.read().  A chunk is written at the worker's
\* own file position and reported as 'progress'; at the end of the body the
\* stream is closed and 'completed' is posted.
workerRead(r, i) ==
  /\ r \in RunIds
  /\ i \in DOMAIN Run(r).workers
  /\ LET w == Run(r).workers[i]
         key == <<r[1], i - 1>>
         from == RangeFrom(Run(r).segments[i])
         to == RangeTo(Run(r).segments[i])
         bodyLen == IF w.full THEN Run(r).totalSize ELSE to - from + 1
         off == IF w.full THEN 0 ELSE from
     IN /\ w.pc = "read"
        /\ IF w.downloaded < bodyLen
           THEN /\ runs' = [runs EXCEPT ![r[1]][r[2]].workers[i].downloaded = @ + 1,
                              ![r[1]][r[2]].workers[i].msgs =
                                 Append(@, [type |-> "progress", downloaded |-> w.downloaded + 1])]
                /\ parts' = IF key \in DOMAIN parts
                            THEN PutFile(parts, key,
                                   WriteAt(parts[key], w.downloaded,
                                           RangeBody(off + w.downloaded, off + w.downloaded)))
                            ELSE parts
           ELSE /\ runs' = [runs EXCEPT ![r[1]][r[2]].workers[i].pc = "idle",
                              ![r[1]][r[2]].workers[i].msgs =
                                 Append(@, [type |-> "completed", downloaded |-> w.downloaded])]
                /\ UNCHANGED parts
  /\ UNCHANGED <<tasks, downloaders, outFile, ops, creating>>
  /\ UNCHANGED <<calc, rejected, resumeFiles, storage>>

\* Main thread: worker.on('message').  'completed' resolves the segment's
\* promise and 'error' rejects it; when that settles Promise.all, the rest
\* of startMultiThreadDownload runs in the same turn.
onWorkerMessage(r, i) ==
  /\ r \in RunIds
  /\ i \in DOMAIN Run(r).workers
  /\ Run(r).workers[i].msgs # <<>>
  /\ LET m == Head(Run(r).workers[i].msgs)
         popped == [runs EXCEPT ![r[1]][r[2]].workers[i].msgs = Tail(@)]
         guard == ~Run(r).isCancelled /\ ~Run(r).isPaused
         waiting == Run(r).pc = "workers"
     IN CASE m.type = "progress" ->
               LET segs == [Run(r).segments EXCEPT ![i].downloaded = m.downloaded]
               IN /\ runs' = [popped EXCEPT ![r[1]][r[2]].segments = segs,
                                ![r[1]][r[2]].downloadedSize = SumDownloaded(segs)]
                  /\ UNCHANGED tasks
          [] m.type = "completed" ->
               LET segs == [Run(r).segments EXCEPT ![i].status = COMPLETED]
                   all == \A j \in DOMAIN segs : segs[j].status = COMPLETED
               IN /\ runs' = [popped EXCEPT ![r[1]][r[2]].segments = segs,
                               ![r[1]][r[2]].pc =
                                  IF waiting /\ all
                                  THEN (IF guard THEN "merge" ELSE "done") ELSE @,
                               ![r[1]][r[2]].mergeIdx =
                                  IF waiting /\ all /\ guard THEN 1 ELSE @,
                               ![r[1]][r[2]].out =
                                  IF waiting /\ all /\ guard
                                  THEN [NoStream EXCEPT !.created = TRUE] ELSE @]
                  /\ UNCHANGED tasks
          [] m.type = "error" ->
               LET segs == [Run(r).segments EXCEPT ![i].status = FAILED]
               IN /\ runs' = [popped EXCEPT ![r[1]][r[2]].segments = segs,
                               ![r[1]][r[2]].pc = IF waiting THEN "done" ELSE @,
                               ![r[1]][r[2]].evtPending =
                                  IF waiting /\ guard THEN TRUE ELSE @]
                  /\ tasks' = IF waiting /\ guard THEN OnError(tasks, r) ELSE tasks
  /\ UNCHANGED <<downloaders, parts, outFile, ops, creating>>
  /\ UNCHANGED <<calc, rejected, resumeFiles, storage>>

\* mergeSegments, one segment per step: readFile of the part file,
\* writeStream.write(data) without waiting for the write, unlink.  After the
\* last segment writeStream.end() is called without waiting either, and
\* startMultiThreadDownload goes on to emitCompletion, which clears isActive
\* and emits 'completed'.  A failed readFile is caught by
\* startMultiThreadDownload, which emits 'error' unless the downloader is
\* paused or cancelled.
mergeStep(r) ==
  /\ r \in RunIds
  /\ Run(r).pc = "merge"
  /\ LET k == Run(r).mergeIdx
         key == <<r[1], k - 1>>
         guard == ~Run(r).isCancelled /\ ~Run(r).isPaused
     IN IF key \notin DOMAIN parts
        THEN /\ runs' = [runs EXCEPT ![r[1]][r[2]].pc = "done",
                           ![r[1]][r[2]].evtPending = IF guard THEN TRUE ELSE @]
             /\ tasks' = IF guard THEN OnError(tasks, r) ELSE tasks
             /\ UNCHANGED parts
        ELSE /\ parts' = Unlink(parts, {key})
             /\ IF k < Len(Run(r).segments)
                THEN /\ runs' = [runs EXCEPT ![r[1]][r[2]].mergeIdx = k + 1,
                                   ![r[1]][r[2]].out.buf = @ \o parts[key]]
                     /\ UNCHANGED tasks
                ELSE /\ runs' = [runs EXCEPT ![r[1]][r[2]].pc = "done",
                                   ![r[1]][r[2]].isActive = FALSE,
                                   ![r[1]][r[2]].evtPending = TRUE,
                                   ![r[1]][r[2]].out.buf = @ \o parts[key]]
                     /\ tasks' = OnCompleted(tasks, r)
  /\ UNCHANGED <<downloaders, outFile, ops, creating>>
  /\ UNCHANGED <<calc, rejected, resumeFiles, storage>>

\* The write stream on outputPath works in the background: the first
\* flush opens the file, which creates or truncates it, and every flush
\* writes the buffered data at the stream's own position.
outputFlush(r) ==
  /\ r \in RunIds
  /\ LET o == Run(r).out
         t == r[1]
         base == IF o.open /\ t \in DOMAIN outFile THEN outFile[t] ELSE <<>>
     IN /\ o.created
        /\ ~o.open \/ o.buf # <<>>
        /\ outFile' = PutFile(outFile, t, WriteAt(base, o.pos, o.buf))
        /\ runs' = [runs EXCEPT ![r[1]][r[2]].out.open = TRUE,
                                ![r[1]][r[2]].out.buf = <<>>,
                                ![r[1]][r[2]].out.pos = o.pos + Len(o.buf)]
  /\ UNCHANGED <<tasks, downloaders, parts, ops, creating>>
  /\ UNCHANGED <<calc, rejected, resumeFiles, storage>>

\* startProgressMonitoring: the interval callback, set once the workers or
\* the single stream are started.  It clears itself when the downloader is
\* inactive, paused or cancelled (none of which is ever undone), else
\* updateProgress emits 'progress'.
Monitoring(r) == Run(r).pc \in {"workers", "merge", "read", "end", "done", "hung"}

progressTick(r) ==
  /\ r \in RunIds
  /\ Monitoring(r)
  /\ Run(r).isActive /\ ~Run(r).isPaused /\ ~Run(r).isCancelled
  /\ tasks' = OnProgress(tasks, r)
  /\ UNCHANGED <<runs, downloaders, parts, outFile, ops, creating>>
  /\ UNCHANGED <<calc, rejected, resumeFiles, storage>>

\* startSingleThreadDownload after its fetch: a failure is caught by
\* start(), which emits 'error'; otherwise the output stream is created,
\* the progress timer started and the body read.
singleResponse(r, ok) ==
  /\ r \in RunIds
  /\ Run(r).pc = "fetch"
  /\ IF ok
     THEN /\ runs' = [runs EXCEPT ![r[1]][r[2]].pc = "read",
                        ![r[1]][r[2]].out = [NoStream EXCEPT !.created = TRUE]]
          /\ UNCHANGED tasks
     ELSE /\ runs' = [runs EXCEPT ![r[1]][r[2]].pc = "done",
                                  ![r[1]][r[2]].isActive = FALSE,
                                  ![r[1]][r[2]].evtPending = TRUE]
          /\ tasks' = OnError(tasks, r)
  /\ UNCHANGED <<downloaders, parts, outFile, ops, creating>>
  /\ UNCHANGED <<calc, rejected, resumeFiles, storage>>

\* startSingleThreadDownload: one reader.read().  A chunk read while paused
\* or cancelled destroys the stream and leaves the promise pending;
\* otherwise it is counted and written.  At the end of the body the stream
\* is ended.
singleRead(r) ==
  /\ r \in RunIds
  /\ Run(r).pc = "read"
  /\ IF Run(r).downloadedSize < Run(r).totalSize
     THEN IF Run(r).isCancelled \/ Run(r).isPaused
          THEN runs' = [runs EXCEPT ![r[1]][r[2]].pc = "hung",
                                    ![r[1]][r[2]].out.created = FALSE,
                                    ![r[1]][r[2]].out.buf = <<>>]
          ELSE runs' = [runs EXCEPT ![r[1]][r[2]].downloadedSize = @ + 1,
                          ![r[1]][r[2]].out.buf =
                             @ \o RangeBody(Run(r).downloadedSize, Run(r).downloadedSize)]
     ELSE runs' = [runs EXCEPT ![r[1]][r[2]].pc = "end"]
  /\ UNCHANGED <<tasks, downloaders, parts, outFile, ops, creating>>
  /\ UNCHANGED <<calc, rejected, resumeFiles, storage>>

\* startSingleThreadDownload: the callback of writeStream.end, called once
\* everything is written; emitCompletion unless paused or cancelled.
singleEnd(r) ==
  /\ r \in RunIds
  /\ Run(r).pc = "end"
  /\ Run(r).out.open
  /\ Run(r).out.buf = <<>>
  /\ IF ~Run(r).isCancelled /\ ~Run(r).isPaused
     THEN /\ runs' = [runs EXCEPT ![r[1]][r[2]].pc = "done",
                                  ![r[1]][r[2]].isActive = FALSE,
                                  ![r[1]][r[2]].evtPending = TRUE]
          /\ tasks' = OnCompleted(tasks, r)
     ELSE /\ runs' = [runs EXCEPT ![r[1]][r[2]].pc = "hung"]
          /\ UNCHANGED tasks
  /\ UNCHANGED <<downloaders, parts, outFile, ops, creating>>
  /\ UNCHANGED <<calc, rejected, resumeFiles, storage>>

\* ---- specifications ----

\* One task and one start of it, against a server that may or may not
\* accept ranges and may fail any request; every operation of the manager.
Next ==
  \/ \E wm \in WorkModes : createDownloadTask(wm, MaxTasks)
  \/ \E t \in creating : createSaved(t, MaxStarts)
  \/ \E t \in TaskIds : startDownload(t, MaxStarts)
  \/ \E t \in TaskIds : startRejected(t)
  \/ \E t \in TaskIds : pauseDownload(t)
  \/ \E op \in ops : pauseDone(op)
  \/ \E t \in TaskIds : cancelDownload(t)
  \/ \E op \in ops : cancelDone(op)
  \/ \E r \in RunIds : handlerDone(r)
  \/ \E r \in RunIds : updateDone(r)
  \/ \E r \in RunIds, resp \in {"fail", "range", "norange"} : headReturns(r, resp, FileSize)
  \/ \E r \in RunIds : mkdirDone(r)
  \/ \E r \in RunIds, i \in 1..MaxConcurrency, ok \in BOOLEAN : workerResponse(r, i, ok)
  \/ \E r \in RunIds, i \in 1..MaxConcurrency : workerRead(r, i)
  \/ \E r \in RunIds, i \in 1..MaxConcurrency : onWorkerMessage(r, i)
  \/ \E r \in RunIds : mergeStep(r)
  \/ \E r \in RunIds : outputFlush(r)
  \/ \E r \in RunIds : progressTick(r)
  \/ \E r \in RunIds, ok \in BOOLEAN : singleResponse(r, ok)
  \/ \E r \in RunIds : singleRead(r)
  \/ \E r \in RunIds : singleEnd(r)

Spec == Init /\ [][Next]_vars

\* The same program under a fair scheduler: the event loop runs every
\* callback that is ready and the server answers every request, while the
\* caller is free to create, start, pause and cancel or not.
ProgramStep ==
  \/ \E t \in creating : createSaved(t, MaxStarts)
  \/ \E op \in ops : pauseDone(op)
  \/ \E op \in ops : cancelDone(op)
  \/ \E r \in RunIds : handlerDone(r)
  \/ \E r \in RunIds : updateDone(r)
  \/ \E r \in RunIds, resp \in {"fail", "range", "norange"} : headReturns(r, resp, FileSize)
  \/ \E r \in RunIds : mkdirDone(r)
  \/ \E r \in RunIds, i \in 1..MaxConcurrency, ok \in BOOLEAN : workerResponse(r, i, ok)
  \/ \E r \in RunIds, i \in 1..MaxConcurrency : workerRead(r, i)
  \/ \E r \in RunIds, i \in 1..MaxConcurrency : onWorkerMessage(r, i)
  \/ \E r \in RunIds : mergeStep(r)
  \/ \E r \in RunIds : outputFlush(r)
  \/ \E r \in RunIds, ok \in BOOLEAN : singleResponse(r, ok)
  \/ \E r \in RunIds : singleRead(r)
  \/ \E r \in RunIds : singleEnd(r)

SpecFair == Init /\ [][Next]_vars /\ WF_vars(ProgramStep)

\* Pause and resume: one task started up to MaxStartsR times, no cancel,
\* against a server that accepts ranges and answers every request.
NextResume ==
  \/ createDownloadTask("non_blocking", MaxTasks)
  \/ \E t \in creating : createSaved(t, MaxStartsR)
  \/ \E t \in TaskIds : resumeDownload(t, MaxStartsR)
  \/ \E t \in TaskIds : pauseDownload(t)
  \/ \E op \in ops : pauseDone(op)
  \/ \E r \in RunIds : handlerDone(r)
  \/ \E r \in RunIds : updateDone(r)
  \/ \E r \in RunIds : headReturns(r, "range", FileSize)
  \/ \E r \in RunIds : mkdirDone(r)
  \/ \E r \in RunIds, i \in 1..MaxConcurrency : workerResponse(r, i, TRUE)
  \/ \E r \in RunIds, i \in 1..MaxConcurrency : workerRead(r, i)
  \/ \E r \in RunIds, i \in 1..MaxConcurrency : onWorkerMessage(r, i)
  \/ \E r \in RunIds : mergeStep(r)
  \/ \E r \in RunIds : outputFlush(r)
  \/ \E r \in RunIds : progressTick(r)

SpecResume == Init /\ [][NextResume]_vars

\* The task queue: up to MaxTasksQ tasks and MaxStartsQ starts whose calls
\* all overlap, every started call still waiting for its updateTask.
NextQueue ==
  \/ \E wm \in WorkModes : createDownloadTask(wm, MaxTasksQ)
  \/ \E t \in creating : createSaved(t, MaxStartsQ)
  \/ \E t \in TaskIds : startDownload(t, MaxStartsQ)
  \/ \E t \in TaskIds : resumeDownload(t, MaxStartsQ)
  \/ \E t \in TaskIds : pauseDownload(t)

SpecQueue == Init /\ [][NextQueue]_vars

\* Rejected calls: up to MaxTasksQ tasks created without being started,
\* then started, paused and resumed, every call either accepted or rejected.
NextReject ==
  \/ createDownloadTask("persistent", MaxTasksQ)
  \/ \E t \in TaskIds : startDownload(t, MaxStartsQ)
  \/ \E t \in TaskIds : resumeDownload(t, MaxStartsQ)
  \/ \E t \in TaskIds : pauseDownload(t)
  \/ \E t \in TaskIds : startRejected(t)
  \/ \E t \in TaskIds : pauseRejected(t)
  \/ \E t \in TaskIds : resumeRejected(t)

SpecReject == Init /\ [][NextReject]_vars

\* A server that may ignore the Range header: one task started once with
\* maxConcurrency = MaxConcurrencyS, each ranged GET answered with 206 and
\* the range or with 200 and the whole resource.
NextServer ==
  \/ createDownloadTask("non_blocking", MaxTasks)
  \/ \E t \in creating : createSaved(t, MaxStarts)
  \/ \E r \in RunIds : handlerDone(r)
  \/ \E r \in RunIds : updateDone(r)
  \/ \E r \in RunIds : headReturnsN(r, "range", FileSize, MaxConcurrencyS)
  \/ \E r \in RunIds : mkdirDone(r)
  \/ \E r \in RunIds, i \in 1..MaxConcurrencyS : workerResponse(r, i, TRUE)
  \/ \E r \in RunIds, i \in 1..MaxConcurrencyS : workerResponse200(r, i)
  \/ \E r \in RunIds, i \in 1..MaxConcurrencyS : workerRead(r, i)
  \/ \E r \in RunIds, i \in 1..MaxConcurrencyS : onWorkerMessage(r, i)
  \/ \E r \in RunIds : mergeStep(r)
  \/ \E r \in RunIds : outputFlush(r)
  \/ \E r \in RunIds : progressTick(r)

SpecServer == Init /\ [][NextServer]_vars

\* Failing workers: one task started once with maxConcurrency =
\* MaxConcurrencyS against a server that accepts ranges and may fail any
\* ranged GET.
NextWorkerFailure ==
  \/ createDownloadTask("non_blocking", MaxTasks)
  \/ \E t \in creating : createSaved(t, MaxStarts)
  \/ \E r \in RunIds : handlerDone(r)
  \/ \E r \in RunIds : updateDone(r)
  \/ \E r \in RunIds : headReturnsN(r, "range", FileSize, MaxConcurrencyS)
  \/ \E r \in RunIds : mkdirDone(r)
  \/ \E r \in RunIds, i \in 1..MaxConcurrencyS, ok \in BOOLEAN : workerResponse(r, i, ok)
  \/ \E r \in RunIds, i \in 1..MaxConcurrencyS : workerRead(r, i)
  \/ \E r \in RunIds, i \in 1..MaxConcurrencyS : onWorkerMessage(r, i)
  \/ \E r \in RunIds : mergeStep(r)
  \/ \E r \in RunIds : outputFlush(r)
  \/ \E r \in RunIds : progressTick(r)

SpecWorkerFailure == Init /\ [][NextWorkerFailure]_vars

\* ---- SegmentCalculator ----

MIN_CHUNK_SIZE == 102400
MAX_CHUNK_SIZE == 10485760
OPTIMAL_CHUNK_SIZE == 1048576
SMALL_FILE_THRESHOLD == 1048576
LARGE_FILE_THRESHOLD == 104857600

Max(a, b) == IF a > b THEN a ELSE b

\* SegmentCalculator.calculateSpeedBasedConnections
calculateSpeedBasedConnections(networkSpeed, totalSize) ==
  IF networkSpeed < 100 * 1024 THEN Min(2, CeilDiv(totalSize, 5 * 1024 * 1024))
  ELSE IF networkSpeed < 1024 * 1024 THEN Min(4, CeilDiv(totalSize, 2 * 1024 * 1024))
  ELSE IF networkSpeed < 10 * 1024 * 1024 THEN Min(8, CeilDiv(totalSize, 1024 * 1024))
  ELSE Min(16, CeilDiv(totalSize, 512 * 1024))

\* SegmentCalculator.calculateOptimalConnections; a networkSpeed of 0
\* stands for an absent one (both are falsy).
calculateOptimalConnections(totalSize, maxConcurrency, networkSpeed) ==
  IF totalSize < SMALL_FILE_THRESHOLD THEN 1
  ELSE LET bySize == IF totalSize < LARGE_FILE_THRESHOLD
                     THEN CeilDiv(totalSize, 1024 * 1024)
                     ELSE CeilDiv(totalSize, 10 * 1024 * 1024)
           sizeBasedConnections == Min(bySize, maxConcurrency)
       IN IF networkSpeed # 0
          THEN Min(sizeBasedConnections,
                   calculateSpeedBasedConnections(networkSpeed, totalSize))
          ELSE sizeBasedConnections

\* SegmentCalculator.calculateChunkSize
calculateChunkSize(totalSize, connections, minChunkSize, maxChunkSize, optimalChunkSize) ==
  LET baseChunkSize == totalSize \div connections
      chunkSize == Max(minChunkSize, Min(maxChunkSize, baseChunkSize))
  IN IF totalSize > LARGE_FILE_THRESHOLD THEN Max(chunkSize, optimalChunkSize)
     ELSE chunkSize

\* SegmentCalculator.generateSegments: the loop from index i at currentPos.
RECURSIVE generateFrom(_, _, _, _, _)
generateFrom(i, currentPos, totalSize, connections, chunkSize) ==
  IF i >= connections THEN <<>>
  ELSE LET end == IF i = connections - 1 THEN totalSize - 1
                  ELSE Min(currentPos + chunkSize - 1, totalSize - 1)
       IN <<[start |-> currentPos, end |-> end, downloaded |-> 0, status |-> PENDING]>>
          \o generateFrom(i + 1, end + 1, totalSize, connections, chunkSize)

generateSegments(totalSize, connections, chunkSize) ==
  generateFrom(0, 0, totalSize, connections, chunkSize)

\* SegmentCalculator.calculateSegments
smartSegments(totalSize, maxConcurrency, networkSpeed, minChunkSize, maxChunkSize, optimalChunkSize) ==
  LET optimalConnections == calculateOptimalConnections(totalSize, maxConcurrency, networkSpeed)
      chunkSize == calculateChunkSize(totalSize, optimalConnections,
                                      minChunkSize, maxChunkSize, optimalChunkSize)
  IN generateSegments(totalSize, optimalConnections, chunkSize)

\* The segmentation requests of the model: file sizes around the
\* thresholds, the concurrency range of the configuration schema, default
\* and custom chunk bounds.
SegTotalSizes ==
  {1, 1024, 1025, 5000, 1048576, 1572864, 3000000, 4000000, 20971520, 105906176}
SegConcurrencies == {1, 2, 3, 4, 16}
SegChunkSizes == {1024, 4096, 1048576}
SegNetworkSpeeds == {0, 51200, 5242880}
SegMinChunks == {MIN_CHUNK_SIZE, 2097152}
SegMaxChunks == {MAX_CHUNK_SIZE, 1048576}
SegOptimalChunks == {OPTIMAL_CHUNK_SIZE, 62914560}

\* The byte ranges MultiThreadDownloader.start requests once the HEAD probe
\* has told the size and whether ranges are supported: the segments of
\* calculateSegments, or one request for the whole file (the single-stream
\* download).
planDownload(supportsRange, totalSize, maxConcurrency, chunkSize) ==
  IF supportsRange /\ totalSize > chunkSize
  THEN calculateSegments(totalSize, maxConcurrency, chunkSize)
  ELSE <<[start |-> 0, end |-> totalSize - 1, downloaded |-> 0, status |-> PENDING]>>

SegmentCalls ==
  [fn : {"calculateSegments"}, supportsRange : {TRUE}, totalSize : SegTotalSizes,
   maxConcurrency : SegConcurrencies, chunkSize : SegChunkSizes,
   networkSpeed : {0}, minChunkSize : {MIN_CHUNK_SIZE},
   maxChunkSize : {MAX_CHUNK_SIZE}, optimalChunkSize : {OPTIMAL_CHUNK_SIZE},
   done : {FALSE}, out : {<<>>}]
  \cup
  [fn : {"planDownload"}, supportsRange : BOOLEAN, totalSize : SegTotalSizes,
   maxConcurrency : SegConcurrencies, chunkSize : SegChunkSizes,
   networkSpeed : {0}, minChunkSize : {MIN_CHUNK_SIZE},
   maxChunkSize : {MAX_CHUNK_SIZE}, optimalChunkSize : {OPTIMAL_CHUNK_SIZE},
   done : {FALSE}, out : {<<>>}]
  \cup
  [fn : {"smartSegments"}, supportsRange : {TRUE}, totalSize : SegTotalSizes,
   maxConcurrency : SegConcurrencies, chunkSize : {1024},
   networkSpeed : SegNetworkSpeeds, minChunkSize : SegMinChunks,
   maxChunkSize : SegMaxChunks, optimalChunkSize : SegOptimalChunks,
   done : {FALSE}, out : {<<>>}]

InitSegments ==
  /\ tasks = <<>>
  /\ downloaders = <<>>
  /\ runs = <<>>
  /\ parts = <<>>
  /\ outFile = <<>>
  /\ ops = {}
  /\ creating = {}
  /\ rejected = NoCall
  /\ resumeFiles = <<>>
  /\ storage = NoStorage
  /\ calc \in SegmentCalls

\* A call of MultiThreadDownloader.calculateSegments returns.
calculateSegmentsReturns ==
  /\ calc.fn = "calculateSegments"
  /\ ~calc.done
  /\ calc' = [calc EXCEPT !.done = TRUE,
                          !.out = calculateSegments(calc.totalSize, calc.maxConcurrency,
                                                    calc.chunkSize)]
  /\ UNCHANGED <<tasks, downloaders, runs, parts, outFile, ops, creating, rejected, resumeFiles, storage>>

\* MultiThreadDownloader.start has planned its requests.
planDownloadReturns ==
  /\ calc.fn = "planDownload"
  /\ ~calc.done
  /\ calc' = [calc EXCEPT !.done = TRUE,
                          !.out = planDownload(calc.supportsRange, calc.totalSize,
                                               calc.maxConcurrency, calc.chunkSize)]
  /\ UNCHANGED <<tasks, downloaders, runs, parts, outFile, ops, creating, rejected, resumeFiles, storage>>

\* A call of SegmentCalculator.calculateSegments returns.
smartSegmentsReturns ==
  /\ calc.fn = "smartSegments"
  /\ ~calc.done
  /\ calc' = [calc EXCEPT !.done = TRUE,
                          !.out = smartSegments(calc.totalSize, calc.maxConcurrency,
                                                calc.networkSpeed, calc.minChunkSize,
                                                calc.maxChunkSize, calc.optimalChunkSize)]
  /\ UNCHANGED <<tasks, downloaders, runs, parts, outFile, ops, creating, rejected, resumeFiles, storage>>

NextSegments ==
  \/ calculateSegmentsReturns
  \/ planDownloadReturns
  \/ smartSegmentsReturns

SpecSegments == InitSegments /\ [][NextSegments]_vars

\* ---- SegmentCalculator.rebalanceSegments ----

\* SegmentCalculator.splitSegment; the id `${segment.id}_split_${i}` is the
\* parent's id with "split" and i appended.
splitSegment(segment, nparts) ==
  LET totalSize == segment.end - segment.start + 1
      partSize == totalSize \div nparts
  IN [k \in 1..nparts |->
        LET i == k - 1 IN
        [id |-> segment.id \o <<"split", i>>,
         start |-> segment.start + i * partSize,
         end |-> IF i = nparts - 1 THEN segment.end
                 ELSE segment.start + (i + 1) * partSize - 1,
         downloaded |-> 0,
         status |-> PENDING,
         retryCount |-> 0]]

\* newSegments.splice(index, 1, ...splitSegments).
Splice(segs, index, repl) ==
  SubSeq(segs, 1, index - 1) \o repl \o SubSeq(segs, index + 1, Len(segs))

\* SegmentCalculator.redistributeFailedSegments: every failed segment is
\* reset, and split in two once it has been retried more than 3 times.
RECURSIVE redistributeFailedSegments(_)
redistributeFailedSegments(segments) ==
  IF segments = <<>> THEN <<>>
  ELSE LET seg == Head(segments)
           reset == [seg EXCEPT !.status = PENDING, !.downloaded = 0,
                                !.retryCount = @ + 1]
       IN (IF seg.status # FAILED THEN <<seg>>
           ELSE IF reset.retryCount > 3 THEN splitSegment(reset, 2)
           ELSE <<reset>>)
          \o redistributeFailedSegments(Tail(segments))

Remaining(seg) == seg.end - seg.start - seg.downloaded

\* SegmentCalculator.splitLargeSegments: `active` are the indices of the
\* active segments; the first one with the most bytes left is split if
\* more than twice MIN_CHUNK_SIZE is left.
splitLargeSegments(segments, active) ==
  IF active = {} THEN segments
  ELSE LET largest == CHOOSE i \in active :
                        /\ \A j \in active : Remaining(segments[j]) <= Remaining(segments[i])
                        /\ \A j \in active : j < i =>
                                              Remaining(segments[j]) < Remaining(segments[i])
       IN IF Remaining(segments[largest]) > MIN_CHUNK_SIZE * 2
          THEN Splice(segments, largest, splitSegment(segments[largest], 2))
          ELSE segments

\* SegmentCalculator.rebalanceSegments.
rebalanceSegments(segments, connectionQuality) ==
  LET active == {i \in DOMAIN segments :
                   segments[i].status = DOWNLOADING
                   /\ Remaining(segments[i]) > MIN_CHUNK_SIZE}
      completed == {i \in DOMAIN segments : segments[i].status = COMPLETED}
      failed == {i \in DOMAIN segments : segments[i].status = FAILED}
  IN IF failed # {} THEN redistributeFailedSegments(segments)
     ELSE IF connectionQuality = "excellent" /\ completed # {}
     THEN splitLargeSegments(segments, active)
     ELSE segments

\* The segments handed to rebalanceSegments: a file in two segments
\* "segment_0" and "segment_1" of `size` bytes each, each in any state a
\* download can leave it in; `size` is RebalanceSegmentSize or one byte.
RebalanceSegmentSize == 524288
SegmentStates(i, start, size) ==
  LET end == start + size - 1
      id == <<"segment", i>>
      Partly(S) == {d \in S : d < size}
  IN
  [id : {id}, start : {start}, end : {end}, downloaded : {0}, status : {PENDING},
   retryCount : {0, 3}]
  \cup [id : {id}, start : {start}, end : {end}, downloaded : Partly({0, 1000, 400000}),
         status : {DOWNLOADING}, retryCount : {0, 3}]
  \cup [id : {id}, start : {start}, end : {end}, downloaded : Partly({0, 1000}),
         status : {FAILED}, retryCount : {0, 3}]
  \cup [id : {id}, start : {start}, end : {end}, downloaded : {size},
         status : {COMPLETED}, retryCount : {0, 3}]

RebalanceCalls ==
  UNION {
    {[fn |-> "rebalanceSegments", segments |-> <<a, b>>, connectionQuality |-> q,
      done |-> FALSE, out |-> <<>>] :
       a \in SegmentStates(0, 0, sizes[1]),
       b \in SegmentStates(1, sizes[1], sizes[2]),
       q \in {"excellent", "good"}} :
    sizes \in {1, RebalanceSegmentSize} \X {1, RebalanceSegmentSize}}

InitRebalance ==
  /\ tasks = <<>>
  /\ downloaders = <<>>
  /\ runs = <<>>
  /\ parts = <<>>
  /\ outFile = <<>>
  /\ ops = {}
  /\ creating = {}
  /\ rejected = NoCall
  /\ resumeFiles = <<>>
  /\ storage = NoStorage
  /\ calc \in RebalanceCalls

rebalanceSegmentsReturns ==
  /\ calc.fn = "rebalanceSegments"
  /\ ~calc.done
  /\ calc' = [calc EXCEPT !.done = TRUE,
                          !.out = rebalanceSegments(calc.segments, calc.connectionQuality)]
  /\ UNCHANGED <<tasks, downloaders, runs, parts, outFile, ops, creating, rejected,
                 resumeFiles, storage>>

NextRebalance == rebalanceSegmentsReturns

SpecRebalance == InitRebalance /\ [][NextRebalance]_vars

\* ---- error classification and retry loops ----

\* Largest retryCount the configuration schema accepts.
retryCountMax == 10

\* What an operation can throw: `kind` is "AbortError" (a timed-out request),
\* "FetchTypeError" (fetch's TypeError for a failed connection), "HTTP" (an
\* error with an HTTP status, whose message is "HTTP <status>"), "code" (an
\* error with a system error code) or "other".  Ok stands for a normal
\* return.
Ok == [kind |-> "ok", status |-> 0, code |-> "none"]
NoError == [kind |-> "none", status |-> 0, code |-> "none"]
HttpStatuses == {400, 401, 403, 404, 408, 429, 500, 503}
ErrorCodes == {"ENOENT", "EACCES", "ENOSPC", "ETIMEDOUT", "ECONNRESET"}
Errors ==
  [kind : {"AbortError", "FetchTypeError", "other"}, status : {0}, code : {"none"}]
  \cup [kind : {"HTTP"}, status : HttpStatuses, code : {"none"}]
  \cup [kind : {"code"}, status : {0}, code : ErrorCodes]

\* ErrorHandler.analyzeError: the type and the retryable flag of the
\* DownloadError it returns.
analyzeError(error) ==
  IF error.kind = "AbortError" THEN [type |-> "TIMEOUT_ERROR", retryable |-> TRUE]
  ELSE IF error.kind = "FetchTypeError" THEN [type |-> "NETWORK_ERROR", retryable |-> TRUE]
  ELSE IF error.kind = "HTTP" /\ error.status >= 500
       THEN [type |-> "SERVER_ERROR", retryable |-> TRUE]
  ELSE IF error.kind = "HTTP" /\ error.status \in {401, 403}
       THEN [type |-> "AUTHENTICATION_ERROR", retryable |-> FALSE]
  ELSE IF error.kind = "HTTP" /\ error.status >= 400 /\ error.status < 500
       THEN [type |-> "SERVER_ERROR", retryable |-> FALSE]
  ELSE IF error.code \in {"ENOENT", "EACCES", "ENOSPC"}
       THEN [type |-> "FILE_SYSTEM_ERROR", retryable |-> error.code # "EACCES"]
  ELSE [type |-> "UNKNOWN_ERROR", retryable |-> TRUE]

\* NetworkUtils.isRetryableError.
isRetryableError(error) ==
  IF error.code \in {"ETIMEDOUT", "ECONNRESET"} THEN TRUE
  ELSE IF error.status >= 500 /\ error.status < 600 THEN TRUE
  ELSE IF error.status \in {408, 429} THEN TRUE
  ELSE FALSE

\* RetryUtils.shouldRetry without a custom retryCondition.
shouldRetry(retryable, attempt, maxRetries) ==
  IF attempt >= maxRetries THEN FALSE ELSE retryable

\* A retry loop about to start: `attempt` is the loop variable, `calls`
\* counts the invocations of the operation, `lastError` is the last error
\* the operation threw and `fatal` tells that the loop has classified it as
\* not retryable.
RetryCalls ==
  [fn : {"executeWithRetry", "downloadWithRetry"}, maxRetries : 0..retryCountMax,
   attempt : {1}, calls : {0}, result : {"running"}, lastError : {NoError},
   fatal : {FALSE}]
  \cup
  [fn : {"withRetry"}, maxRetries : 0..retryCountMax,
   attempt : {0}, calls : {0}, result : {"running"}, lastError : {NoError},
   fatal : {FALSE}]

InitRetry ==
  /\ tasks = <<>>
  /\ downloaders = <<>>
  /\ runs = <<>>
  /\ parts = <<>>
  /\ outFile = <<>>
  /\ ops = {}
  /\ creating = {}
  /\ rejected = NoCall
  /\ resumeFiles = <<>>
  /\ storage = NoStorage
  /\ calc \in RetryCalls

\* RetryUtils.executeWithRetry: one iteration of the loop.  The operation
\* returns (Ok) or throws; the error is analysed and shouldRetry decides
\* between rethrowing and, after the delay, the next iteration.
executeWithRetryStep(outcome) ==
  /\ calc.fn = "executeWithRetry"
  /\ calc.result = "running"
  /\ calc.attempt <= calc.maxRetries
  /\ calc' = IF outcome = Ok
             THEN [calc EXCEPT !.calls = @ + 1, !.result = "returned"]
             ELSE IF ~shouldRetry(analyzeError(outcome).retryable, calc.attempt,
                                  calc.maxRetries)
             THEN [calc EXCEPT !.calls = @ + 1, !.result = "thrown",
                               !.lastError = outcome,
                               !.fatal = ~analyzeError(outcome).retryable]
             ELSE [calc EXCEPT !.calls = @ + 1, !.attempt = @ + 1,
                               !.lastError = outcome, !.fatal = FALSE]
  /\ UNCHANGED <<tasks, downloaders, runs, parts, outFile, ops, creating, rejected, resumeFiles, storage>>

\* NetworkUtils.withRetry: one iteration of the loop, which counts attempts
\* from 0 and leaves the loop on the last attempt or on an error that is
\* not retryable.
withRetryStep(outcome) ==
  /\ calc.fn = "withRetry"
  /\ calc.result = "running"
  /\ calc.attempt <= calc.maxRetries
  /\ calc' = IF outcome = Ok
             THEN [calc EXCEPT !.calls = @ + 1, !.result = "returned"]
             ELSE IF calc.attempt = calc.maxRetries
             THEN [calc EXCEPT !.calls = @ + 1, !.result = "thrown",
                               !.lastError = outcome]
             ELSE IF ~isRetryableError(outcome)
             THEN [calc EXCEPT !.calls = @ + 1, !.result = "thrown",
                               !.lastError = outcome, !.fatal = TRUE]
             ELSE [calc EXCEPT !.calls = @ + 1, !.attempt = @ + 1,
                               !.lastError = outcome]
  /\ UNCHANGED <<tasks, downloaders, runs, parts, outFile, ops, creating, rejected, resumeFiles, storage>>

\* DownloadWorker.downloadWithRetry: one iteration of the loop.  Every
\* error is retried while attempts remain.
downloadWithRetryStep(outcome) ==
  /\ calc.fn = "downloadWithRetry"
  /\ calc.result = "running"
  /\ calc.attempt <= calc.maxRetries
  /\ calc' = IF outcome = Ok
             THEN [calc EXCEPT !.calls = @ + 1, !.result = "returned"]
             ELSE [calc EXCEPT !.calls = @ + 1, !.attempt = @ + 1,
                               !.lastError = outcome]
  /\ UNCHANGED <<tasks, downloaders, runs, parts, outFile, ops, creating, rejected, resumeFiles, storage>>

\* executeWithRetry or downloadWithRetry is left because
\* attempt > maxRetries: `throw lastError!`.
retryLoopExit ==
  /\ calc.fn \in {"executeWithRetry", "downloadWithRetry"}
  /\ calc.result = "running"
  /\ calc.attempt > calc.maxRetries
  /\ calc' = [calc EXCEPT !.result = "thrown"]
  /\ UNCHANGED <<tasks, downloaders, runs, parts, outFile, ops, creating, rejected, resumeFiles, storage>>

NextRetry ==
  \/ \E outcome \in {Ok} \cup Errors : executeWithRetryStep(outcome)
  \/ \E outcome \in {Ok} \cup Errors : withRetryStep(outcome)
  \/ \E outcome \in {Ok} \cup Errors : downloadWithRetryStep(outcome)
  \/ retryLoopExit

SpecRetry == InitRetry /\ [][NextRetry]_vars

\* ---- backoff delays ----

RECURSIVE Pow(_, _)
Pow(b, n) == IF n = 0 THEN 1 ELSE b * Pow(b, n - 1)

\* Number of equally spaced values of Math.random() that are considered:
\* random = k / RandomSteps for k in 0..RandomSteps-1.
RandomSteps == 4

\* RetryUtils.calculateDelay with the jitter factor drawn from [0.5, 1.5).
calculateDelay_m(attempt, baseDelay, maxDelay, factorNum, factorDen, jitter, random) ==
  LET den      == Pow(factorDen, attempt - 1)
      num      == baseDelay * Pow(factorNum, attempt - 1)
      clamped  == Min(num, maxDelay * den)
      jnum     == IF jitter THEN clamped * (RandomSteps + 2 * random) ELSE clamped
      jden     == IF jitter THEN den * 2 * RandomSteps ELSE den
  IN  jnum \div jden

\* RetryUtils.calculateDelay.  backoffFactor is the fraction
\* factorNum / factorDen, so the delay before flooring is the fraction
\* num / den; Math.random() is random / RandomSteps, so the jitter factor
\* 0.5 + random * 0.5 is (RandomSteps + random) / (2 * RandomSteps).
calculateDelay(attempt, baseDelay, maxDelay, factorNum, factorDen, jitter, random) ==
  LET den      == Pow(factorDen, attempt - 1)
      num      == baseDelay * Pow(factorNum, attempt - 1)
      clamped  == Min(num, maxDelay * den)
      jnum     == IF jitter THEN clamped * (RandomSteps + random) ELSE clamped
      jden     == IF jitter THEN den * 2 * RandomSteps ELSE den
  IN  jnum \div jden

\* ErrorHandler.calculateRetryDelay.
calculateRetryDelay(attempt, baseDelay, maxDelay) ==
  Min(baseDelay * Pow(2, attempt - 1), maxDelay)

\* The delay DownloadWorker.downloadWithRetry sleeps after a failed attempt.
workerBaseDelay == 1000
workerMaxDelay == 10000
workerDelay(attempt) == Min(workerBaseDelay * Pow(2, attempt - 1), workerMaxDelay)

DelayAttempts == 1..5
DelayBases == {500, 1000}
DelayMaxima == {5000, 15000, 30000}
\* backoffFactor 2 (default, network strategy) and 1.5 (file strategy).
DelayFactors == {<<2, 1>>, <<3, 2>>}

DelayCalls ==
  [fn : {"calculateDelay"}, attempt : DelayAttempts, baseDelay : DelayBases,
   maxDelay : DelayMaxima, factor : DelayFactors, jitter : BOOLEAN,
   random : 0..(RandomSteps - 1), done : {FALSE}, out : {0}]
  \cup
  [fn : {"calculateRetryDelay"}, attempt : DelayAttempts, baseDelay : DelayBases,
   maxDelay : DelayMaxima, factor : {<<2, 1>>}, jitter : {FALSE},
   random : {0}, done : {FALSE}, out : {0}]
  \cup
  [fn : {"workerDelay"}, attempt : DelayAttempts, baseDelay : {workerBaseDelay},
   maxDelay : {workerMaxDelay}, factor : {<<2, 1>>}, jitter : {FALSE},
   random : {0}, done : {FALSE}, out : {0}]

InitDelay ==
  /\ tasks = <<>>
  /\ downloaders = <<>>
  /\ runs = <<>>
  /\ parts = <<>>
  /\ outFile = <<>>
  /\ ops = {}
  /\ creating = {}
  /\ rejected = NoCall
  /\ resumeFiles = <<>>
  /\ storage = NoStorage
  /\ calc \in DelayCalls

calculateDelayReturns ==
  /\ calc.fn = "calculateDelay"
  /\ ~calc.done
  /\ calc' = [calc EXCEPT !.done = TRUE,
                          !.out = calculateDelay(calc.attempt, calc.baseDelay, calc.maxDelay,
                                                 calc.factor[1], calc.factor[2],
                                                 calc.jitter, calc.random)]
  /\ UNCHANGED <<tasks, downloaders, runs, parts, outFile, ops, creating, rejected, resumeFiles, storage>>

calculateRetryDelayReturns ==
  /\ calc.fn = "calculateRetryDelay"
  /\ ~calc.done
  /\ calc' = [calc EXCEPT !.done = TRUE,
                          !.out = calculateRetryDelay(calc.attempt, calc.baseDelay, calc.maxDelay)]
  /\ UNCHANGED <<tasks, downloaders, runs, parts, outFile, ops, creating, rejected, resumeFiles, storage>>

workerDelayReturns ==
  /\ calc.fn = "workerDelay"
  /\ ~calc.done
  /\ calc' = [calc EXCEPT !.done = TRUE, !.out = workerDelay(calc.attempt)]
  /\ UNCHANGED <<tasks, downloaders, runs, parts, outFile, ops, creating, rejected, resumeFiles, storage>>

NextDelay ==
  \/ calculateDelayReturns
  \/ calculateRetryDelayReturns
  \/ workerDelayReturns

SpecDelay == InitDelay /\ [][NextDelay]_vars

\* ---- ResumeManager.canResume ----

\* The resume file of a task: absent, or a ResumeData record.  `urlMatches`
\* tells whether its url is the task's; an absent etag or lastModified is "".
NoResumeData ==
  [present |-> FALSE, urlMatches |-> FALSE, totalSize |-> 0, etag |-> "",
   lastModified |-> ""]
ResumeDatas ==
  {NoResumeData} \cup
  [present : {TRUE}, urlMatches : BOOLEAN, totalSize : {1, 2},
   etag : {"", "a", "b"}, lastModified : {"", "x", "y"}]

\* task.metadata as startDownload finds it, and the answer a HEAD request
\* would get from the server at that moment.
TaskMetadatas == [etag : {"", "a"}, lastModified : {"", "x"}]
HeadAnswers == [totalSize : {1, 2}, etag : {"", "a", "b"}, lastModified : {"", "x", "y"}]

\* ResumeManager.validatePartialFile.
validatePartialFile(mainFileExists, hasValidSegments) ==
  mainFileExists \/ hasValidSegments

\* ResumeManager.hasServerFileChanged.
hasServerFileChanged(metadata, resumeData) ==
  IF resumeData.etag # "" /\ metadata.etag # ""
  THEN resumeData.etag # metadata.etag
  ELSE IF resumeData.lastModified # "" /\ metadata.lastModified # ""
  THEN resumeData.lastModified # metadata.lastModified
  ELSE FALSE

\* ResumeManager.canResume.
canResume(enableResume, resumeData, outputExists, hasValidSegments, metadata) ==
  IF ~enableResume THEN FALSE
  ELSE IF ~resumeData.present THEN FALSE
  ELSE IF ~resumeData.urlMatches THEN FALSE
  ELSE IF ~outputExists THEN FALSE
  ELSE IF ~validatePartialFile(outputExists, hasValidSegments) THEN FALSE
  ELSE IF hasServerFileChanged(metadata, resumeData) THEN FALSE
  ELSE TRUE

CanResumeCalls ==
  [fn : {"canResume"}, enableResume : BOOLEAN, resumeData : ResumeDatas,
   outputExists : BOOLEAN, hasValidSegments : BOOLEAN, metadata : TaskMetadatas,
   head : HeadAnswers, stored : {NoResumeData}, done : {FALSE}, out : {FALSE}]

InitCanResume ==
  /\ tasks = <<>>
  /\ downloaders = <<>>
  /\ runs = <<>>
  /\ parts = <<>>
  /\ outFile = <<>>
  /\ ops = {}
  /\ creating = {}
  /\ rejected = NoCall
  /\ resumeFiles = <<>>
  /\ storage = NoStorage
  /\ calc \in CanResumeCalls

\* canResume returns; `stored` is the resume file it leaves behind, which
\* is the one it found, since canResume deletes nothing.
canResumeReturns ==
  /\ calc.fn = "canResume"
  /\ ~calc.done
  /\ calc' = [calc EXCEPT !.done = TRUE,
                          !.stored = calc.resumeData,
                          !.out = canResume(calc.enableResume, calc.resumeData,
                                            calc.outputExists, calc.hasValidSegments,
                                            calc.metadata)]
  /\ UNCHANGED <<tasks, downloaders, runs, parts, outFile, ops, creating, rejected, resumeFiles, storage>>

NextCanResume == canResumeReturns

SpecCanResume == InitCanResume /\ [][NextCanResume]_vars

\* ---- ResumeManager.saveResumeData and loadResumeData ----

\* Number of saveResumeData calls for the task, which may overlap.
MaxSaves == 3
\* Number of write requests fs.writeFile needs for one record.
RecordChunks == 2

\* What loadResumeData has returned: nothing yet, null, or a record, which
\* is identified by the number of the save that wrote it.
NotLoaded == 0 - 1
NullData == 0

\* The serialized record of save v: RecordChunks pieces, each tagged v.
Serialized(v) == [k \in 1..RecordChunks |-> v]

\* JSON.parse of a file content: the record if the content is one whole
\* serialized record, otherwise a SyntaxError, which loadResumeData turns
\* into null.
ParseResume(content) ==
  IF \E v \in 1..MaxSaves : content = Serialized(v)
  THEN content[1]
  ELSE NullData

InitResumeFile ==
  /\ tasks = <<>>
  /\ downloaders = <<>>
  /\ runs = <<>>
  /\ parts = <<>>
  /\ outFile = <<>>
  /\ ops = {}
  /\ creating = {}
  /\ rejected = NoCall
  /\ resumeFiles = <<>>
  /\ storage = NoStorage
  /\ calc = [fn |-> "saveResumeData", saves |-> 0, loaded |-> NotLoaded]

\* saveResumeData(task) up to the point where fs.writeFile has opened the
\* resume file with flag 'w', which creates or truncates it.
saveResumeData(t, maxSaves) ==
  /\ calc.fn = "saveResumeData"
  /\ calc.saves < maxSaves
  /\ calc' = [calc EXCEPT !.saves = @ + 1]
  /\ resumeFiles' = PutFile(resumeFiles, t, <<>>)
  /\ ops' = ops \cup {[kind |-> "save", task |-> t, version |-> calc.saves + 1,
                        written |-> 0]}
  /\ UNCHANGED <<tasks, downloaders, runs, parts, outFile, creating, rejected, storage>>

\* fs.writeFile writes the next piece of the record at its own position.
saveWrite(op) ==
  /\ op \in ops
  /\ op.kind = "save"
  /\ resumeFiles' = [resumeFiles EXCEPT ![op.task] = WriteAt(@, op.written, <<op.version>>)]
  /\ ops' = IF op.written + 1 = RecordChunks
            THEN ops \ {op}
            ELSE (ops \ {op}) \cup {[op EXCEPT !.written = @ + 1]}
  /\ UNCHANGED <<tasks, downloaders, runs, parts, outFile, creating, rejected, calc,
                 storage>>

\* loadResumeData: readFile and JSON.parse, null on any error.
loadResumeData(t) ==
  /\ calc.fn = "saveResumeData"
  /\ calc' = [calc EXCEPT !.loaded = IF t \in DOMAIN resumeFiles
                                     THEN ParseResume(resumeFiles[t])
                                     ELSE NullData]
  /\ UNCHANGED <<tasks, downloaders, runs, parts, outFile, ops, creating, rejected,
                 resumeFiles, storage>>

\* One task whose resume record is saved up to MaxSaves times and loaded at
\* any moment.
NextResumeFile ==
  \/ saveResumeData(1, MaxSaves)
  \/ \E op \in ops : saveWrite(op)
  \/ loadResumeData(1)

SpecResumeFile == InitResumeFile /\ [][NextResumeFile]_vars

\* ---- restart: TaskStorage.initialize and DownloadManager.initializeManager ----

\* Number of tasks in the tasks file when the process starts.
MaxPersisted == 2

\* The id of the task a create call makes after the restart.
NewTaskId == MaxPersisted + 1

TaskRecord(status) ==
  [status |-> status, progress |-> [totalSize |-> 0, downloadedSize |-> 0]]

\* The ids of S, latest created first (loadTasks sorts by createdAt,
\* descending; a larger id is a later task).
RECURSIVE Descending(_)
Descending(S) ==
  IF S = {} THEN <<>>
  ELSE LET m == CHOOSE x \in S : \A y \in S : y <= x
       IN <<m>> \o Descending(S \ {m})

\* The process starts with a tasks file of 1..MaxPersisted tasks in any
\* status; the constructor has called initializeManager, which is at
\* `await fs.mkdir` inside taskStorage.initialize().
InitRestart ==
  /\ tasks = <<>>
  /\ downloaders = <<>>
  /\ runs = <<>>
  /\ parts = <<>>
  /\ outFile = <<>>
  /\ ops = {}
  /\ creating = {}
  /\ rejected = NoCall
  /\ calc = NoCalc
  /\ resumeFiles = <<>>
  /\ \E n \in 1..MaxPersisted : \E f \in [1..n -> DownloadStatus] :
        storage = [tasks |-> <<>>, isInitialized |-> FALSE,
                   file |-> [valid |-> TRUE, tasks |-> f],
                   pc |-> "mkdir", todo |-> <<>>, persisted |-> f]

\* saveToFile: the JSON of the storage's map is taken at the call, and
\* fs.writeFile is started on the tasks file.
WriteOp(by, data) == [kind |-> "write", by |-> by, data |-> data, opened |-> FALSE]

\* The loop of initializeManager over the loaded tasks `todo`, from registry
\* reg and storage st, up to its next `await this.taskStorage.updateTask` or
\* to its end: every task passed is put into the registry, a DOWNLOADING or
\* PAUSED one is set to PAUSED and saved.
LoopStep(reg, st, todo) ==
  LET hits == {j \in 1..Len(todo) : st.tasks[todo[j]] \in {DOWNLOADING, PAUSED}}
      k    == IF hits = {} THEN 0 ELSE CHOOSE j \in hits : \A i \in hits : j <= i
      upto == IF k = 0 THEN Len(todo) ELSE k
      ids  == {todo[j] : j \in 1..upto}
      map  == IF k = 0 THEN st.tasks ELSE [st.tasks EXCEPT ![todo[k]] = PAUSED]
  IN  [tasks |-> [id \in (DOMAIN reg) \cup ids |->
                    IF id \in DOMAIN map THEN TaskRecord(map[id]) ELSE reg[id]],
       storage |-> [st EXCEPT !.tasks = map,
                              !.pc = IF k = 0 THEN "done" ELSE "update",
                              !.todo = SubSeq(todo, upto + 1, Len(todo))],
       newOps |-> IF k = 0 THEN {} ELSE {WriteOp("init", map)}]

\* taskStorage.initialize(): mkdir has returned, readFile is issued.
initMkdirDone ==
  /\ storage.pc = "mkdir"
  /\ storage' = [storage EXCEPT !.pc = "read"]
  /\ UNCHANGED <<tasks, downloaders, runs, parts, outFile, ops, creating, rejected, calc,
                 resumeFiles>>

\* readFile returns what the file holds at that moment.  A valid file is
\* parsed into the storage's map, initialize returns, loadTasks gives every
\* task of the map and the loop of initializeManager begins; for an invalid
\* one the catch block calls saveToFile.
initReadDone ==
  /\ storage.pc = "read"
  /\ IF storage.file.valid
     THEN LET loaded == [id \in (DOMAIN storage.tasks) \cup (DOMAIN storage.file.tasks) |->
                           IF id \in DOMAIN storage.file.tasks
                           THEN storage.file.tasks[id] ELSE storage.tasks[id]]
              st == [storage EXCEPT !.tasks = loaded, !.isInitialized = TRUE]
              step == LoopStep(tasks, st, Descending(DOMAIN loaded))
          IN /\ tasks' = step.tasks
             /\ storage' = step.storage
             /\ ops' = ops \cup step.newOps
     ELSE /\ storage' = [storage EXCEPT !.pc = "save"]
          /\ ops' = ops \cup {WriteOp("initialize", storage.tasks)}
          /\ UNCHANGED tasks
  /\ UNCHANGED <<downloaders, runs, parts, outFile, creating, rejected, calc, resumeFiles>>

\* createDownloadTask in persistent mode, with the storage in view: the
\* task enters the registry and the storage's map, and saveTask starts
\* saveToFile.
createStored(id) ==
  /\ id \notin DOMAIN tasks
  /\ id \notin DOMAIN storage.tasks
  /\ tasks' = PutFile(tasks, id, TaskRecord(PENDING))
  /\ storage' = [storage EXCEPT !.tasks = PutFile(@, id, PENDING)]
  /\ ops' = ops \cup {WriteOp("create", PutFile(storage.tasks, id, PENDING))}
  /\ UNCHANGED <<downloaders, runs, parts, outFile, creating, rejected, calc, resumeFiles>>

\* fs.writeFile opens the tasks file with flag 'w', which truncates it.
fileOpen(op) ==
  /\ op \in ops
  /\ op.kind = "write"
  /\ ~op.opened
  /\ ops' = (ops \ {op}) \cup {[op EXCEPT !.opened = TRUE]}
  /\ storage' = [storage EXCEPT !.file = NoFile]
  /\ UNCHANGED <<tasks, downloaders, runs, parts, outFile, creating, rejected, calc,
                 resumeFiles>>

\* fs.writeFile has written its data and returns to whoever awaited it:
\* createDownloadTask or an event handler returns, initialize sets
\* isInitialized and the loop of initializeManager begins, or that loop
\* goes on.
fileWritten(op) ==
  /\ op \in ops
  /\ op.kind = "write"
  /\ op.opened
  /\ LET st == [storage EXCEPT !.file = [valid |-> TRUE, tasks |-> op.data]] IN
       IF op.by \notin {"initialize", "init"}
       THEN /\ storage' = st
            /\ ops' = ops \ {op}
            /\ UNCHANGED tasks
       ELSE LET todo == IF op.by = "initialize"
                        THEN Descending(DOMAIN st.tasks) ELSE st.todo
                step == LoopStep(tasks, [st EXCEPT !.isInitialized = TRUE], todo)
            IN /\ tasks' = step.tasks
               /\ storage' = step.storage
               /\ ops' = (ops \ {op}) \cup step.newOps
  /\ UNCHANGED <<downloaders, runs, parts, outFile, creating, rejected, calc, resumeFiles>>

\* A restart with persisted tasks, and one create call arriving at any
\* moment.
NextRestart ==
  \/ initMkdirDone
  \/ initReadDone
  \/ createStored(NewTaskId)
  \/ \E op \in ops : fileOpen(op)
  \/ \E op \in ops : fileWritten(op)

SpecRestart == InitRestart /\ [][NextRestart]_vars

\* ---- saves of a running task: TaskStorage.updateTask from the event handlers ----

\* What saveToFile serialises of a task: the registry and the storage's map
\* hold the same object.
Snapshot(task) == [status |-> task.status, downloadedSize |-> task.progress.downloadedSize]

\* One task is downloading and its record is on disk.
InitSaves ==
  /\ tasks = <<[status |-> DOWNLOADING,
                progress |-> [totalSize |-> MaxProgressSaves, downloadedSize |-> 0]]>>
  /\ downloaders = <<>>
  /\ runs = <<>>
  /\ parts = <<>>
  /\ outFile = <<>>
  /\ ops = {}
  /\ creating = {}
  /\ rejected = NoCall
  /\ calc = NoCalc
  /\ resumeFiles = <<>>
  /\ storage = [NoStorage EXCEPT
                  !.tasks = <<Snapshot(tasks[1])>>,
                  !.isInitialized = TRUE,
                  !.file = [valid |-> TRUE, tasks |-> <<Snapshot(tasks[1])>>],
                  !.pc = "done"]

\* The 'progress' handler: task.progress is replaced and updateTask is
\* called without await.
progressSaved(t) ==
  /\ t \in TaskIds
  /\ tasks[t].status = DOWNLOADING
  /\ tasks[t].progress.downloadedSize < tasks[t].progress.totalSize
  /\ tasks' = [tasks EXCEPT ![t].progress.downloadedSize = @ + 1]
  /\ storage' = [storage EXCEPT !.tasks[t] = Snapshot(tasks'[t])]
  /\ ops' = ops \cup {WriteOp("progress", storage'.tasks)}
  /\ UNCHANGED <<downloaders, runs, parts, outFile, creating, rejected, calc, resumeFiles>>

\* The 'completed' handler up to its `await this.taskStorage.updateTask`.
completedSaved(t) ==
  /\ t \in TaskIds
  /\ tasks[t].status = DOWNLOADING
  /\ tasks' = SetStatus(tasks, t, COMPLETED)
  /\ storage' = [storage EXCEPT !.tasks[t] = Snapshot(tasks'[t])]
  /\ ops' = ops \cup {WriteOp("completed", storage'.tasks)}
  /\ UNCHANGED <<downloaders, runs, parts, outFile, creating, rejected, calc, resumeFiles>>

\* Progress events and the completion of one task, every save a
\* fs.writeFile of its own on the tasks file.
NextSaves ==
  \/ progressSaved(1)
  \/ completedSaved(1)
  \/ \E op \in ops : fileOpen(op)
  \/ \E op \in ops : fileWritten(op)

SpecSaves == InitSaves /\ [][NextSaves]_vars

\* ---- session cookies ----

\* Strings are sequences of characters, so that startsWith, endsWith and
\* includes compare what the code compares.
StartsWith(s, p) == Len(p) <= Len(s) /\ SubSeq(s, 1, Len(p)) = p

EndsWith(s, p) == Len(p) <= Len(s) /\ SubSeq(s, Len(s) - Len(p) + 1, Len(s)) = p

Includes(s, p) == \E i \in 0..(Len(s) - Len(p)) : SubSeq(s, i + 1, i + Len(p)) = p

\* "e.c", a host "be.c" that merely ends with the same characters, and the
\* subdomain "s.e.c".
HostExample == <<"e", ".", "c">>

HostBad == <<"b", "e", ".", "c">>

HostSub == <<"s", ".", "e", ".", "c">>

CookieHosts == {HostExample, HostBad, HostSub}

\* Domain attribute of a Set-Cookie header: absent, "e.c" or ".e.c".
CookieDomains == {<<>>, HostExample, <<".">> \o HostExample}

\* Path attribute: absent or "/a"; request paths "/" and "/a".
CookiePaths == {<<>>, <<"/", "a">>}

UrlPaths == {<<"/">>, <<"/", "a">>}

Urls == [host : CookieHosts, path : UrlPaths, https : BOOLEAN]

\* A cookie is set at time 0 and read at ReadTime; its Expires attribute
\* names the time `at`, its Max-Age attribute the number of seconds `at`.
ReadTime == 2

ExpiryTimes == {1, 3}

NoDate == 0

InvalidDate == 0 - 1

SetCookies ==
  [domain : CookieDomains, path : CookiePaths, secure : BOOLEAN,
   expiry : {"none"}, at : {NoDate}]
  \cup [domain : CookieDomains, path : CookiePaths, secure : BOOLEAN,
        expiry : {"expires", "max-age"}, at : ExpiryTimes]

CookieManagers == {"SessionManager", "EnhancedSessionManager", "AdvancedSessionManager"}

\* SessionManager.parseCookie: an attribute is kept only when the header
\* has it; Max-Age becomes an expiry date counted from the time of parsing.
parseCookie(host, sc, value) ==
  [name |-> <<"n">>, value |-> value, domain |-> sc.domain, path |-> sc.path,
   secure |-> sc.secure,
   expires |-> IF sc.expiry = "none" THEN NoDate ELSE sc.at,
   key |-> <<>>, setBy |-> host, attr |-> sc]

\* EnhancedSessionManager.parseCookies and parseSingleCookie: the header is
\* split at every comma, which cuts an Expires date ("Wed, 21 Oct ...")
\* after the day name, so `new Date` of the rest is an invalid date;
\* Max-Age is not read; domain and path default to the response's host
\* and "/".
parseSingleCookie(host, sc, value) ==
  [name |-> <<"n">>, value |-> value,
   domain |-> IF sc.domain = <<>> THEN host ELSE sc.domain,
   path |-> IF sc.path = <<>> THEN <<"/">> ELSE sc.path,
   secure |-> sc.secure,
   expires |-> IF sc.expiry = "expires" THEN InvalidDate ELSE NoDate,
   key |-> <<>>, setBy |-> host, attr |-> sc]

\* AdvancedSessionManager.storeCookies: only name and value are kept, under
\* the key "<hostname>|<name>".
storeCookies(host, sc, value) ==
  [name |-> <<"n">>, value |-> value, domain |-> <<>>, path |-> <<>>,
   secure |-> FALSE, expires |-> NoDate,
   key |-> host \o <<"|">> \o <<"n">>, setBy |-> host, attr |-> sc]

\* SessionManager.addCookie: the cookie of the same name, domain and path
\* is removed and the new one pushed.
addCookie(jar, cookie) ==
  LET Other(c) == ~(c.name = cookie.name /\ c.domain = cookie.domain /\ c.path = cookie.path)
  IN Append(SelectSeq(jar, Other), cookie)

\* Map.set under the key name:domain:path (EnhancedSessionManager) or
\* hostname|name (AdvancedSessionManager): an existing entry keeps its
\* place and gets the new value.
SameKey(c, d) == c.name = d.name /\ c.domain = d.domain /\ c.path = d.path /\ c.key = d.key

MapSet(jar, cookie) ==
  IF \E i \in DOMAIN jar : SameKey(jar[i], cookie)
  THEN [i \in DOMAIN jar |-> IF SameKey(jar[i], cookie) THEN cookie ELSE jar[i]]
  ELSE Append(jar, cookie)

\* SessionManager.isDomainMatch.
isDomainMatch(hostname, cookieDomain) ==
  IF StartsWith(cookieDomain, <<".">>)
  THEN hostname = Tail(cookieDomain) \/ EndsWith(hostname, cookieDomain)
  ELSE hostname = cookieDomain

\* EnhancedSessionManager.isDomainMatch.
isDomainMatchEnhanced(hostname, cookieDomain) ==
  IF hostname = cookieDomain THEN TRUE
  ELSE IF StartsWith(cookieDomain, <<".">>)
       THEN EndsWith(hostname, Tail(cookieDomain))
       ELSE FALSE

\* EnhancedSessionManager.isPathMatch.
isPathMatch(pathname, cookiePath) == StartsWith(pathname, cookiePath)

\* Date comparison: every comparison with an invalid date is false.
DateLess(a, b) == a # InvalidDate /\ b # InvalidDate /\ a < b

\* SessionManager.getCookiesForUrl: the filter on the session's cookies.
getCookiesForUrl(jar, url) ==
  LET Keep(cookie) ==
        /\ ~(cookie.expires # NoDate /\ DateLess(cookie.expires, ReadTime))
        /\ cookie.domain # <<>> => isDomainMatch(url.host, cookie.domain)
        /\ ~(cookie.path # <<>> /\ ~StartsWith(url.path, cookie.path))
        /\ ~(cookie.secure /\ ~url.https)
  IN SelectSeq(jar, Keep)

\* EnhancedSessionManager.getCookieString: the cookies it joins.
getCookieString(jar, url) ==
  LET Keep(cookie) ==
        /\ isDomainMatchEnhanced(url.host, cookie.domain)
        /\ isPathMatch(url.path, cookie.path)
        /\ cookie.expires = NoDate \/ DateLess(ReadTime, cookie.expires)
        /\ ~cookie.secure \/ url.https
  IN SelectSeq(jar, Keep)

\* AdvancedSessionManager.getCookieHeader: every entry whose key contains
\* the request's hostname.
getCookieHeader(jar, url) ==
  LET Keep(cookie) == Includes(cookie.key, url.host)
  IN SelectSeq(jar, Keep)

\* The Cookie header: the name=value pairs, in order.
CookiePairs(cookies) == [i \in DOMAIN cookies |-> <<cookies[i].name, cookies[i].value>>]

NoUrl == [host |-> <<>>, path |-> <<>>, https |-> FALSE]

InitCookies ==
  /\ tasks = <<>>
  /\ downloaders = <<>>
  /\ runs = <<>>
  /\ parts = <<>>
  /\ outFile = <<>>
  /\ ops = {}
  /\ creating = {}
  /\ rejected = NoCall
  /\ resumeFiles = <<>>
  /\ storage = NoStorage
  /\ calc \in [fn : {"cookies"}, manager : CookieManagers, jar : {<<>>},
               stores : {0}, url : {NoUrl}, sent : {<<>>}, out : {<<>>},
               done : {FALSE}]

\* A response from `host` that carries one Set-Cookie header: the manager
\* parses and stores it.
cookieStored(host, sc, maxCookies) ==
  /\ calc.fn = "cookies"
  /\ ~calc.done
  /\ calc.stores < maxCookies
  /\ LET value == calc.stores + 1
         jar == CASE calc.manager = "SessionManager" ->
                       addCookie(calc.jar, parseCookie(host, sc, value))
                  [] calc.manager = "EnhancedSessionManager" ->
                       MapSet(calc.jar, parseSingleCookie(host, sc, value))
                  [] calc.manager = "AdvancedSessionManager" ->
                       MapSet(calc.jar, storeCookies(host, sc, value))
     IN calc' = [calc EXCEPT !.jar = jar, !.stores = value]
  /\ UNCHANGED <<tasks, downloaders, runs, parts, outFile, ops, creating>>
  /\ UNCHANGED <<rejected, resumeFiles, storage>>

\* The Cookie header for a request to `url`.
cookieHeaderBuilt(url) ==
  /\ calc.fn = "cookies"
  /\ ~calc.done
  /\ LET sent == CASE calc.manager = "SessionManager" -> getCookiesForUrl(calc.jar, url)
                   [] calc.manager = "EnhancedSessionManager" -> getCookieString(calc.jar, url)
                   [] calc.manager = "AdvancedSessionManager" -> getCookieHeader(calc.jar, url)
     IN calc' = [calc EXCEPT !.url = url, !.sent = sent, !.out = CookiePairs(sent),
                             !.done = TRUE]
  /\ UNCHANGED <<tasks, downloaders, runs, parts, outFile, ops, creating>>
  /\ UNCHANGED <<rejected, resumeFiles, storage>>

NextCookies ==
  \/ \E host \in CookieHosts, sc \in SetCookies : cookieStored(host, sc, MaxCookies)
  \/ \E url \in Urls : cookieHeaderBuilt(url)

SpecCookies == InitCookies /\ [][NextCookies]_vars

\* ---- EnhancedSessionManager.followRedirects ----

\* config.maxRedirects of the default configuration.
defaultMaxRedirects == 5

\* options.maxRedirects: absent, or a number.
NoOption == 0 - 1

RedirectCalls ==
  [fn : {"followRedirects"},
   option : {NoOption} \cup 0..MaxRedirectsOption,
   chain : 0..MaxChain,
   final : {"ok", "redirect without Location"},
   redirectCount : {0}, requests : {0}, pc : {"loop"}]

InitRedirect ==
  /\ tasks = <<>>
  /\ downloaders = <<>>
  /\ runs = <<>>
  /\ parts = <<>>
  /\ outFile = <<>>
  /\ ops = {}
  /\ creating = {}
  /\ rejected = NoCall
  /\ resumeFiles = <<>>
  /\ storage = NoStorage
  /\ calc \in RedirectCalls

\* maxRedirects = options.maxRedirects ?? this.config.maxRedirects.
maxRedirectsOf(call) ==
  IF call.option = NoOption THEN defaultMaxRedirects ELSE call.option

\* One turn of the while loop: a request to currentUrl; a 3xx response with
\* a Location header counts a redirect and continues, any other response
\* is returned.  The server answers `chain` redirects and then `final`.
followRedirectsFetch ==
  /\ calc.fn = "followRedirects"
  /\ calc.pc = "loop"
  /\ calc.redirectCount < maxRedirectsOf(calc)
  /\ calc' = IF calc.redirectCount < calc.chain
             THEN [calc EXCEPT !.redirectCount = @ + 1, !.requests = @ + 1]
             ELSE [calc EXCEPT !.requests = @ + 1, !.pc = "returned"]
  /\ UNCHANGED <<tasks, downloaders, runs, parts, outFile, ops, creating>>
  /\ UNCHANGED <<rejected, resumeFiles, storage>>

\* The loop condition fails: throw new Error('Too many redirects').
followRedirectsThrow ==
  /\ calc.fn = "followRedirects"
  /\ calc.pc = "loop"
  /\ ~(calc.redirectCount < maxRedirectsOf(calc))
  /\ calc' = [calc EXCEPT !.pc = "thrown"]
  /\ UNCHANGED <<tasks, downloaders, runs, parts, outFile, ops, creating>>
  /\ UNCHANGED <<rejected, resumeFiles, storage>>

NextRedirect ==
  \/ followRedirectsFetch
  \/ followRedirectsThrow

SpecRedirect == InitRedirect /\ [][NextRedirect]_vars

\* ---- ListDownloadsTool ----

\* `limit` of 20 when the caller gives none.
defaultLimit == 20

\* An argument the caller left out: a status, a number.
Absent == "absent"

NoArg == 0 - 1

\* The registry in insertion order: id, status and createdAt of each task.
ListedStatuses == {DOWNLOADING, COMPLETED}

CreatedAts == 1..3

Registries ==
  UNION {[1..n -> [status : ListedStatuses, createdAt : CreatedAts]] : n \in 0..MaxListed}

ListCalls ==
  [fn : {"list_downloads"}, registry : Registries,
   status : {Absent, DOWNLOADING, COMPLETED, FAILED},
   limit : {NoArg} \cup 1..MaxLimit,
   offset : {NoArg} \cup 0..MaxOffset,
   done : {FALSE}, out : {[tasks |-> <<>>, total |-> 0, hasMore |-> FALSE]}]

\* getAllTasks: Array.from(this.tasks.values()), each task with its id.
getAllTasks(registry) ==
  [i \in DOMAIN registry |->
     [taskId |-> i, status |-> registry[i].status, createdAt |-> registry[i].createdAt]]

\* allTasks.sort((a, b) => b.createdAt - a.createdAt): a stable sort,
\* newest first; tasks created at the same time keep their order.
sortNewestFirst(ts) ==
  LET rank(i) == Cardinality({j \in DOMAIN ts : ts[j].createdAt > ts[i].createdAt})
                 + Cardinality({j \in DOMAIN ts : j < i /\ ts[j].createdAt = ts[i].createdAt})
                 + 1
  IN [k \in DOMAIN ts |-> ts[CHOOSE i \in DOMAIN ts : rank(i) = k]]

\* Array.prototype.slice(from, to) for non-negative integers.
slice(ts, from, to) ==
  LET last == IF to < Len(ts) THEN to ELSE Len(ts)
  IN IF from >= last THEN <<>> ELSE SubSeq(ts, from + 1, last)

\* ListDownloadsTool.execute: defaults, filter, sort, page.
listDownloads_m(registry, status, limit, offset) ==
  LET lim == IF limit = NoArg THEN defaultLimit ELSE limit
      off == IF offset = NoArg THEN 0 ELSE offset
      Matches(t) == t.status = status
      allTasks == IF status # Absent
                  THEN SelectSeq(getAllTasks(registry), Matches)
                  ELSE getAllTasks(registry)
      sorted == sortNewestFirst(allTasks)
      total == Len(sorted)
  IN [tasks |-> slice(sorted, off, off + lim), total |-> total,
      hasMore |-> off + lim <= total]

listDownloads(registry, status, limit, offset) ==
  LET lim == IF limit = NoArg THEN defaultLimit ELSE limit
      off == IF offset = NoArg THEN 0 ELSE offset
      Matches(t) == t.status = status
      allTasks == IF status # Absent
                  THEN SelectSeq(getAllTasks(registry), Matches)
                  ELSE getAllTasks(registry)
      sorted == sortNewestFirst(allTasks)
      total == Len(sorted)
  IN [tasks |-> slice(sorted, off, off + lim), total |-> total,
      hasMore |-> off + lim < total]

InitList ==
  /\ tasks = <<>>
  /\ downloaders = <<>>
  /\ runs = <<>>
  /\ parts = <<>>
  /\ outFile = <<>>
  /\ ops = {}
  /\ creating = {}
  /\ rejected = NoCall
  /\ resumeFiles = <<>>
  /\ storage = NoStorage
  /\ calc \in ListCalls

listDownloadsReturns ==
  /\ calc.fn = "list_downloads"
  /\ ~calc.done
  /\ calc' = [calc EXCEPT !.done = TRUE,
                !.out = listDownloads(calc.registry, calc.status, calc.limit, calc.offset)]
  /\ UNCHANGED <<tasks, downloaders, runs, parts, outFile, ops, creating>>
  /\ UNCHANGED <<rejected, resumeFiles, storage>>

NextList == listDownloadsReturns

SpecList == InitList /\ [][NextList]_vars

\* ---- DownloadFileTool: building the task's configuration ----

\* Defaults written in DownloadFileTool.execute.
defaultMaxConcurrency == 4

defaultChunkSize == 1048576

defaultTimeout == 30000

\* Arguments that DownloadFileArgsSchema accepts: each option absent or
\* inside its range (maxConcurrency 1..16, chunkSize >= 1024,
\* timeout >= 1000, retryCount 0..10).
DownloadFileArgs ==
  [maxConcurrency : {NoArg, 1, 4, 16},
   chunkSize : {NoArg, 1024, 2097152},
   timeout : {NoArg, 1000, 60000},
   retryCount : {NoArg, 0, 1, 3, retryCountMax},
   enableResume : {Absent, "true", "false"}]

\* The JavaScript expression `value || fallback` on a number or undefined:
\* undefined and 0 are falsy.
OrElse(value, fallback) == IF value = NoArg \/ value = 0 THEN fallback ELSE value

\* DownloadFileTool.execute: the object handed to DownloadConfigSchema.parse,
\* which changes nothing on values inside the ranges.
buildConfig(args) ==
  [maxConcurrency |-> OrElse(args.maxConcurrency, defaultMaxConcurrency),
   chunkSize |-> OrElse(args.chunkSize, defaultChunkSize),
   timeout |-> OrElse(args.timeout, defaultTimeout),
   retryCount |-> OrElse(args.retryCount, retryCount),
   enableResume |-> IF args.enableResume # "false" THEN "true" ELSE "false"]

InitDownloadFile ==
  /\ tasks = <<>>
  /\ downloaders = <<>>
  /\ runs = <<>>
  /\ parts = <<>>
  /\ outFile = <<>>
  /\ ops = {}
  /\ creating = {}
  /\ rejected = NoCall
  /\ resumeFiles = <<>>
  /\ storage = NoStorage
  /\ calc \in [fn : {"download_file"}, args : DownloadFileArgs, done : {FALSE},
               config : {buildConfig([maxConcurrency |-> NoArg, chunkSize |-> NoArg,
                                      timeout |-> NoArg, retryCount |-> NoArg,
                                      enableResume |-> Absent])}]

downloadFileConfigured ==
  /\ calc.fn = "download_file"
  /\ ~calc.done
  /\ calc' = [calc EXCEPT !.done = TRUE, !.config = buildConfig(calc.args)]
  /\ UNCHANGED <<tasks, downloaders, runs, parts, outFile, ops, creating>>
  /\ UNCHANGED <<rejected, resumeFiles, storage>>

NextDownloadFile == downloadFileConfigured

SpecDownloadFile == InitDownloadFile /\ [][NextDownloadFile]_vars

\* ---- properties ----

\* The segment workers of task t that are fetching or reading, as
\* <<run, segment index>>.
LiveWorkers(t) ==
  {<<k, i - 1>> : k \in 1..Len(runs[t]), i \in 1..MaxConcurrency} \cap
  UNION {{<<k, i - 1>> : i \in {j \in DOMAIN runs[t][k].workers :
                                   runs[t][k].workers[j].pc \in {"fetch", "read"}}} :
         k \in 1..Len(runs[t])}

\* The single-stream fetches of task t that are requesting or reading.
LiveStreams(t) ==
  {k \in 1..Len(runs[t]) : runs[t][k].pc \in {"fetch", "read", "end"}}

\* Every write stream on the output path of t has written all it was given.
Flushed(t) ==
  \A k \in 1..Len(runs[t]) :
     runs[t][k].out.created => runs[t][k].out.open /\ runs[t][k].out.buf = <<>>

ValidTransitions ==
  {<<PENDING, DOWNLOADING>>, <<PENDING, CANCELLED>>,
   <<DOWNLOADING, PAUSED>>, <<DOWNLOADING, COMPLETED>>,
   <<DOWNLOADING, FAILED>>, <<DOWNLOADING, CANCELLED>>,
   <<PAUSED, DOWNLOADING>>, <<PAUSED, CANCELLED>>,
   <<FAILED, DOWNLOADING>>}

\* C1: a task's status changes only along the valid transitions
\* Pending->Downloading, Pending->Cancelled, Downloading->Paused,
\* Downloading->Completed, Downloading->Failed, Downloading->Cancelled,
\* Paused->Downloading, Paused->Cancelled and Failed->Downloading; a
\* Completed or Cancelled task never changes status again.
C1_ValidTransitions ==
  [][\A t \in TaskIds :
       tasks'[t].status # tasks[t].status =>
         <<tasks[t].status, tasks'[t].status>> \in ValidTransitions]_vars

\* C2: in every reachable state the number of tasks whose status is
\* Downloading is at most maxConcurrentTasks (5).
C2_ConcurrencyLimit == ActiveTasks <= maxConcurrentTasks

\* C2 witness: the limit is reached while a sixth task, started and paused
\* before, is Paused, so that its resume is refused.
C2_LimitReached ==
  /\ ActiveTasks = maxConcurrentTasks
  /\ \E t \in TaskIds : tasks[t].status = PAUSED /\ Len(runs[t]) >= 1 /\ ~CanStart(t)

\* C3: whenever a task's status is Paused, no segment worker and no
\* single-stream fetch of that task is alive.
C3_PausedIsQuiet ==
  \A t \in TaskIds :
     tasks[t].status = PAUSED => LiveWorkers(t) = {} /\ LiveStreams(t) = {}

\* C4: once cancel has returned for a task (its status is Cancelled), no
\* part file of that task exists.  (A resume record never exists.)
C4_CancelledHasNoParts ==
  \A t \in TaskIds :
     tasks[t].status = CANCELLED => \A p \in DOMAIN parts : p[1] # t

\* C5: no two live workers of a task work on the same segment index, that
\* is, on the same segment id and the same part file.
C5_OneWorkerPerSegment ==
  \A t \in TaskIds : \A w1, w2 \in LiveWorkers(t) : w1[2] = w2[2] => w1 = w2

\* C6: the number of live workers of a task never exceeds maxConcurrency.
C6_WorkerLimit ==
  \A t \in TaskIds : Cardinality(LiveWorkers(t)) <= MaxConcurrency

\* C7: while a task stays Downloading or Paused, the downloadedSize in its
\* task record never decreases.
C7_ProgressMonotone ==
  [][\A t \in TaskIds :
       (tasks[t].status \in {DOWNLOADING, PAUSED} /\ tasks'[t].status \in {DOWNLOADING, PAUSED})
         => tasks'[t].progress.downloadedSize >= tasks[t].progress.downloadedSize]_vars

\* C8: a download that was paused and resumed and then completes, with all
\* its output written, has produced the bytes of the server's resource.
C8_ResumeFidelity ==
  \A t \in TaskIds :
     (tasks[t].status = COMPLETED /\ Len(runs[t]) >= 2 /\ Flushed(t))
       => t \in DOMAIN outFile /\ outFile[t] = ServerBytes(FileSize)

\* C9: the ranged GET a worker issues for a segment starts after the bytes
\* its part file already holds, so that no byte on disk is requested again.
C9_RangeSkipsWritten ==
  [][\A r \in RunIds :
       (Run(r).pc = "mkdir" /\ runs'[r[1]][r[2]].pc = "workers") =>
         \A i \in DOMAIN Run(r).segments :
            RangeFrom(Run(r).segments[i]) =
              Run(r).segments[i].start + PartLen(<<r[1], i - 1>>)]_vars

\* C10: whenever a task's status is Completed, the output file exists, all
\* merged bytes have been written to it, and its length equals totalSize.
C10_CompletedHasOutput ==
  \A t \in TaskIds :
     tasks[t].status = COMPLETED =>
       /\ t \in DOMAIN outFile
       /\ Flushed(t)
       /\ Len(outFile[t]) = FileSize

\* C11: a task one of whose segments with a non-zero start offset got a
\* 200 response to its ranged GET is never Completed.
C11_No200Completion ==
  \A r \in RunIds :
     (\E i \in DOMAIN Run(r).workers :
         Run(r).segments[i].start > 0 /\ Run(r).workers[i].full)
       => tasks[r[1]].status # COMPLETED

\* The digest of a file's content (a stand-in for the hash the verifier
\* computes over the file's bytes, in order).
RECURSIVE Digest(_)
Digest(f) == IF f = <<>> THEN 0 ELSE (Head(f) + 31 * Digest(Tail(f))) % 251

\* integrity.expectedChecksum of the task's configuration: a digest the
\* server's resource does not have.
ExpectedChecksum == 0

\* C12: with an expected checksum set, a task whose final merged file has
\* another digest is never Completed.
C12_IntegrityGate ==
  \A t \in TaskIds :
     (t \in DOMAIN outFile /\ Flushed(t) /\ Digest(outFile[t]) # ExpectedChecksum)
       => tasks[t].status # COMPLETED

\* C13: each segment satisfies 0 <= downloaded <= end-start+1, and the
\* downloaded counts of a downloader's segments sum to at most totalSize.
C13_SegmentBounds ==
  \A r \in RunIds :
     /\ \A i \in DOMAIN Run(r).segments :
           LET seg == Run(r).segments[i]
           IN 0 <= seg.downloaded /\ seg.downloaded <= seg.end - seg.start + 1
     /\ Run(r).segments # <<>> => SumDownloaded(Run(r).segments) <= Run(r).totalSize

\* The segments are ordered, start at 0, follow one another without gap
\* or overlap, end at totalSize-1, and none is empty or inverted.
IsPartition(segs, totalSize) ==
  /\ Len(segs) >= 1
  /\ segs[1].start = 0
  /\ segs[Len(segs)].end = totalSize - 1
  /\ \A k \in 1..Len(segs) : segs[k].start <= segs[k].end
  /\ \A k \in 2..Len(segs) : segs[k].start = segs[k - 1].end + 1

\* C14: for every totalSize >= 1, maxConcurrency >= 1 and segmentation
\* bounds, the planned segments partition [0, totalSize) exactly.
C14_SegmentsPartition ==
  (calc.fn \in {"calculateSegments", "smartSegments"} /\ calc.done)
    => IsPartition(calc.out, calc.totalSize)

\* C15: a segment fetch that fails with a retryable error makes the task
\* Failed only after the segment's retryCount + 1 attempts are used up.
C15_FailAfterRetries ==
  \A r \in RunIds : \A i \in DOMAIN Run(r).workers :
     (tasks[r[1]].status = FAILED /\ Run(r).segments[i].status = FAILED)
       => Run(r).workers[i].attempts >= retryCount + 1

\* C16: with retryCount = k, an operation that keeps failing with a
\* retryable error has been attempted exactly k + 1 times when the failure
\* is reported.
C16_AttemptsIsRetriesPlusOne ==
  (calc.fn \in {"executeWithRetry", "downloadWithRetry"}
     /\ calc.result = "thrown" /\ ~calc.fatal)
    => calc.calls = calc.maxRetries + 1

IsDelayCall == calc.fn \in {"calculateDelay", "calculateRetryDelay", "workerDelay"}

\* base * factor^(attempt-1) and max_delay, both multiplied by the
\* denominator factorDen^(attempt-1).
BackoffScaled == calc.baseDelay * Pow(calc.factor[1], calc.attempt - 1)
MaxDelayScaled == calc.maxDelay * Pow(calc.factor[2], calc.attempt - 1)

\* C17 as stated: the delay never exceeds max_delay, and without jitter it
\* equals min(base * factor^(attempt-1), max_delay).
C17_DelayExact ==
  (IsDelayCall /\ calc.done)
    => /\ calc.out <= calc.maxDelay
       /\ ~calc.jitter =>
            calc.out * Pow(calc.factor[2], calc.attempt - 1)
              = Min(BackoffScaled, MaxDelayScaled)

\* C17 amended: the delay never exceeds max_delay, and without jitter it
\* is min(base * factor^(attempt-1), max_delay) rounded down to a whole
\* number of milliseconds.
C17_DelayFloor ==
  (IsDelayCall /\ calc.done)
    => /\ calc.out <= calc.maxDelay
       /\ ~calc.jitter =>
            LET den == Pow(calc.factor[2], calc.attempt - 1)
                m   == Min(BackoffScaled, MaxDelayScaled)
            IN  calc.out * den <= m /\ m < (calc.out + 1) * den

\* A jittered delay of a backoff that max_delay has clamped, with the largest
\* jitter considered.
C17_ClampedJitter ==
  /\ calc.fn = "calculateDelay"
  /\ calc.done
  /\ calc.jitter
  /\ calc.random = RandomSteps - 1
  /\ BackoffScaled > MaxDelayScaled
  /\ calc.out > 0

\* The classification the specification gives: retryable errors ...
SpecRetryable(error) ==
  \/ error.kind \in {"AbortError", "FetchTypeError"}
  \/ error.code \in {"ETIMEDOUT", "ECONNRESET"}
  \/ error.status >= 500
  \/ error.status \in {408, 429}

\* ... and fatal errors.
SpecFatal(error) ==
  \/ error.status >= 400 /\ error.status < 500 /\ error.status \notin {408, 429}
  \/ error.code \in {"EACCES", "ENOSPC"}

\* C18: timeouts, network errors, HTTP 5xx, 408 and 429 are classified
\* retryable; every other HTTP 4xx, EACCES and ENOSPC are classified fatal,
\* and a fatal error is never followed by another attempt.
C18_Classification ==
  (calc.fn \in {"executeWithRetry", "withRetry"} /\ calc.lastError # NoError)
    => /\ SpecRetryable(calc.lastError) => ~calc.fatal
       /\ SpecFatal(calc.lastError) => (calc.fatal /\ calc.result = "thrown")

\* C19: a start, pause or resume call that is rejected (wrong state, or
\* maxConcurrentTasks tasks already Downloading) leaves every task's status
\* and progress, and every downloader's workers, as they were.
C19_RejectedCallChangesNothing ==
  [][rejected' # rejected =>
       (tasks' = tasks /\ runs' = runs /\ downloaders' = downloaders)]_vars

\* A start was rejected with QueueFull: maxConcurrentTasks tasks are
\* Downloading and the task it was called on is still Pending or Paused.
C19_QueueFullRejected ==
  /\ rejected.call = "startDownload"
  /\ rejected.error = "QueueFull"
  /\ ActiveTasks = maxConcurrentTasks
  /\ \E t \in TaskIds : tasks[t].status = rejected.status

\* C20: a start invoked on a Failed task is accepted and moves the task to
\* Downloading, so no start that was rejected found the task Failed.
C20_FailedCanRestart ==
  rejected.call = "startDownload" => rejected.status # FAILED

\* C21: cancel on a Cancelled task and pause on a Paused task are no-ops
\* that complete without error; so no pause call that reported an error
\* found the task Paused.
C21_PauseOnPausedIsNoOp ==
  rejected.call = "pauseDownload" => rejected.status # PAUSED

\* The record agrees with a fresh HEAD answer: same total size and same
\* etag when both have one, otherwise same lastModified.
FreshAgainst(resumeData, head) ==
  /\ resumeData.totalSize = head.totalSize
  /\ IF resumeData.etag # "" /\ head.etag # ""
     THEN resumeData.etag = head.etag
     ELSE resumeData.lastModified = head.lastModified

\* C22: a stored resume record is adopted only if it agrees with a fresh
\* HEAD probe; a record that does not agree is not adopted and is removed.
C22_StaleRecordRejected ==
  (calc.fn = "canResume" /\ calc.done /\ calc.enableResume /\ calc.resumeData.present)
    => /\ calc.out => FreshAgainst(calc.resumeData, calc.head)
       /\ ~FreshAgainst(calc.resumeData, calc.head) => ~calc.stored.present

\* C23: once a task is Paused after downloading some bytes, a resume
\* record for it exists (its counters summing to downloadedSize).
C23_PausedHasResumeRecord ==
  \A t \in TaskIds :
     (tasks[t].status = PAUSED /\ tasks[t].progress.downloadedSize > 0)
       => t \in DOMAIN resumeFiles

\* C24: at every moment, which is what a reader or a crash observes, the
\* resume file of a task holds one complete record.
C24_AtomicResumeWrite ==
  \A t \in DOMAIN resumeFiles :
     \E v \in 1..MaxSaves : resumeFiles[t] = Serialized(v)

\* C25: a non_blocking createDownloadTask returns without waiting for the
\* download: while the call has not returned (its startDownload is still
\* inside `await downloader.start()` or earlier), no worker of that
\* download has fetched a byte yet.
C25_CreateDoesNotWait ==
  \A t \in TaskIds :
     (Len(runs[t]) >= 1 /\ runs[t][1].pc # "done")
       => \A i \in DOMAIN runs[t][1].workers : runs[t][1].workers[i].downloaded = 0

\* How a task persisted with status s is shown after a restart.
ShownAfterRestart(s) == IF s = DOWNLOADING THEN PAUSED ELSE s

\* C26: once the initialization after a restart has finished and no write of
\* the tasks file is under way, every task persisted before the restart is
\* in the registry and in the tasks file, Downloading ones as Paused.
C26_RestartKeepsTasks ==
  (storage.pc = "done" /\ ops = {})
    => \A id \in DOMAIN storage.persisted :
          /\ id \in DOMAIN tasks
          /\ tasks[id].status = ShownAfterRestart(storage.persisted[id])
          /\ storage.file.valid
          /\ id \in DOMAIN storage.file.tasks
          /\ storage.file.tasks[id] = ShownAfterRestart(storage.persisted[id])

\* C27: a file below 1 MiB, or a server without Accept-Ranges: bytes, is
\* downloaded as exactly one segment covering the whole file, whatever
\* maxConcurrency and chunkSize are.
C27_SmallFileOneSegment ==
  (calc.fn \in {"planDownload", "smartSegments"} /\ calc.done
     /\ (calc.totalSize < SMALL_FILE_THRESHOLD \/ ~calc.supportsRange))
    => /\ Len(calc.out) = 1
       /\ calc.out[1].start = 0
       /\ calc.out[1].end = calc.totalSize - 1

SegLen(seg) == seg.end - seg.start + 1

\* The plan of the specification's example: 4,000,000 bytes, 4 connections.
ExamplePlan ==
  [k \in 1..4 |-> [start |-> (k - 1) * 1000000, end |-> k * 1000000 - 1]]

\* C28: all planned segments but the last have the same length and the
\* last is longer by less than the number of segments; 4,000,000 bytes with
\* maxConcurrency 4 and chunkSize 1,048,576 are planned as ExamplePlan.
C28_NearEqualSegments ==
  (calc.fn \in {"calculateSegments", "smartSegments"} /\ calc.done)
    => LET n == Len(calc.out) IN
       /\ \A k \in 1..(n - 1) : SegLen(calc.out[k]) = SegLen(calc.out[1])
       /\ SegLen(calc.out[n]) >= SegLen(calc.out[1])
       /\ SegLen(calc.out[n]) - SegLen(calc.out[1]) < n
       /\ (calc.totalSize = 4000000 /\ calc.maxConcurrency = 4
             /\ (calc.fn = "calculateSegments" => calc.chunkSize = 1048576)
             /\ calc.networkSpeed = 0 /\ calc.minChunkSize = MIN_CHUNK_SIZE
             /\ calc.maxChunkSize = MAX_CHUNK_SIZE
             /\ calc.optimalChunkSize = OPTIMAL_CHUNK_SIZE)
            => [k \in 1..n |-> [start |-> calc.out[k].start, end |-> calc.out[k].end]]
                 = ExamplePlan

\* C29: when rebalancing splits a segment, the bytes already downloaded
\* are kept in the first child: the sum of downloaded over the segments is
\* the same before and after the split.
C29_SplitKeepsDownloaded ==
  (calc.fn = "rebalanceSegments" /\ calc.done /\ Len(calc.out) > Len(calc.segments))
    => SumDownloaded(calc.out) = SumDownloaded(calc.segments)

\* C30: whenever a task is Completed, its recorded progress shows the whole
\* file downloaded: downloadedSize = totalSize = the size of the resource.
C30_CompletedProgressIsFull ==
  \A t \in TaskIds :
     tasks[t].status = COMPLETED
       => /\ tasks[t].progress.totalSize = FileSize
          /\ tasks[t].progress.downloadedSize = FileSize

\* C31: if merging fails part-way, the task becomes Failed, the partially
\* written output file is deleted, and the part files of all segments are
\* still present so that a retry can continue.
MergeFailed(r) ==
  /\ r \in RunIds
  /\ Run(r).pc = "done"
  /\ Run(r).mergeIdx >= 1
  /\ Run(r).isActive
  /\ \A j \in DOMAIN Run(r).segments : Run(r).segments[j].status = COMPLETED

C31_MergeFailureCleansUp ==
  \A r \in RunIds :
     (MergeFailed(r) /\ ~Run(r).isPaused /\ ~Run(r).isCancelled)
       => /\ tasks[r[1]].status = FAILED
          /\ r[1] \notin DOMAIN outFile
          /\ \A j \in DOMAIN Run(r).segments : <<r[1], j - 1>> \in DOMAIN parts

\* C32: the Cookie header built for a URL contains exactly the session's
\* cookies whose domain matches the URL's host (exactly, or as a leading-dot
\* suffix), whose path is a prefix of the URL's path, that are not Secure
\* unless the URL is HTTPS, and that are not expired.
SentDomain(c) == IF c.attr.domain = <<>> THEN c.setBy ELSE c.attr.domain

DomainMatches(host, domain) ==
  \/ host = domain
  \/ /\ StartsWith(domain, <<".">>)
     /\ host = Tail(domain) \/ EndsWith(host, domain)

InScope(c, url) ==
  /\ DomainMatches(url.host, SentDomain(c))
  /\ StartsWith(url.path, IF c.attr.path = <<>> THEN <<"/">> ELSE c.attr.path)
  /\ c.attr.secure => url.https
  /\ c.attr.expiry # "none" => c.attr.at >= ReadTime

C32_CookiesInScope ==
  (calc.fn = "cookies" /\ calc.done
     /\ calc.manager \in {"SessionManager", "EnhancedSessionManager"})
    => LET Scoped(c) == InScope(c, calc.url)
       IN calc.out = CookiePairs(SelectSeq(calc.jar, Scoped))

\* C40: a cookie is never attached to a request for an unrelated host: a
\* cookie set without a Domain attribute goes only to the host that set it,
\* and a cookie for ".e.c" goes only to "e.c" and to hosts ending in ".e.c",
\* not to a host such as "be.c" that merely ends with the same characters.
C40_NoCookieForUnrelatedHost ==
  (calc.fn = "cookies" /\ calc.done)
    => \A i \in DOMAIN calc.sent :
          IF calc.sent[i].attr.domain = <<>>
          THEN calc.url.host = calc.sent[i].setBy
          ELSE DomainMatches(calc.url.host, calc.sent[i].attr.domain)

\* C33: redirect following returns the final response for every chain of
\* at most maxRedirects redirects, and fails with "Too many redirects"
\* exactly when the chain is longer than maxRedirects.
C33_RedirectCap ==
  (calc.fn = "followRedirects" /\ calc.pc # "loop")
    => (calc.pc = "returned" <=> calc.chain <= maxRedirectsOf(calc))

\* C34: list_downloads(status, limit, offset) returns the tasks matching
\* the status filter, newest first, at most `limit` of them starting at
\* `offset`; total is the number of matching tasks and hasMore is true
\* exactly when offset + limit < total.
ListLimit == IF calc.limit = NoArg THEN defaultLimit ELSE calc.limit

ListOffset == IF calc.offset = NoArg THEN 0 ELSE calc.offset

ListMatching ==
  {i \in DOMAIN calc.registry : calc.status = Absent \/ calc.registry[i].status = calc.status}

C34_ListPage ==
  (calc.fn = "list_downloads" /\ calc.done)
    => LET page == calc.out.tasks
           total == Cardinality(ListMatching)
           rest == IF total > ListOffset THEN total - ListOffset ELSE 0
           Newer(v) == Cardinality({i \in ListMatching : calc.registry[i].createdAt > v})
           NotOlder(v) == Cardinality({i \in ListMatching : calc.registry[i].createdAt >= v})
       IN /\ calc.out.total = total
          /\ calc.out.hasMore <=> (ListOffset + ListLimit < total)
          /\ Len(page) = IF rest < ListLimit THEN rest ELSE ListLimit
          /\ \A k \in DOMAIN page :
                /\ page[k].taskId \in ListMatching
                /\ page[k].status = calc.registry[page[k].taskId].status
                /\ page[k].createdAt = calc.registry[page[k].taskId].createdAt
                /\ Newer(page[k].createdAt) < ListOffset + k
                /\ ListOffset + k <= NotOlder(page[k].createdAt)
          /\ \A k, l \in DOMAIN page : k # l => page[k].taskId # page[l].taskId

\* A second page of a filtered list with more tasks behind it.
C34_MiddlePage ==
  /\ calc.fn = "list_downloads"
  /\ calc.done
  /\ calc.status # Absent
  /\ calc.offset # NoArg
  /\ calc.limit # NoArg
  /\ ListOffset >= 1
  /\ Len(calc.out.tasks) >= 1
  /\ calc.out.hasMore
  /\ Cardinality(ListMatching) < Len(calc.registry)

\* C35: download_file passes every option the caller supplies inside its
\* range into the task's configuration unchanged (retryCount = 0 gives a
\* task whose retryCount is 0) and applies the defaults only to the options
\* the caller left out.
Supplied(value, fallback) == IF value = NoArg THEN fallback ELSE value

C35_OptionsPassedUnchanged ==
  (calc.fn = "download_file" /\ calc.done)
    => /\ calc.config.maxConcurrency = Supplied(calc.args.maxConcurrency, defaultMaxConcurrency)
       /\ calc.config.chunkSize = Supplied(calc.args.chunkSize, defaultChunkSize)
       /\ calc.config.timeout = Supplied(calc.args.timeout, defaultTimeout)
       /\ calc.config.retryCount = Supplied(calc.args.retryCount, retryCount)
       /\ calc.config.enableResume =
            (IF calc.args.enableResume = Absent THEN "true" ELSE calc.args.enableResume)

\* C36: rebalancing (redistributing failed segments or splitting a large
\* one) preserves the partition: afterwards the segments cover
\* [0, totalSize) exactly, without gaps or overlaps, every segment has
\* start <= end, and all segment ids are distinct, for segments of every
\* length including one byte.
C36_RebalanceKeepsPartition ==
  (calc.fn = "rebalanceSegments" /\ calc.done)
    => LET out == calc.out
           totalSize == calc.segments[Len(calc.segments)].end + 1
       IN /\ out # <<>>
          /\ out[1].start = 0
          /\ out[Len(out)].end = totalSize - 1
          /\ \A k \in DOMAIN out : out[k].start <= out[k].end
          /\ \A k \in 1..(Len(out) - 1) : out[k + 1].start = out[k].end + 1
          /\ \A k, l \in DOMAIN out : k # l => out[k].id # out[l].id

\* C37: when a task has become Failed because one of its segment workers
\* failed, all other workers of the task are stopped (none of them reads or
\* writes any more) and the task's recorded progress does not change any
\* more.
FailedByWorker(t) ==
  /\ t \in TaskIds
  /\ tasks[t].status = FAILED
  /\ \E k \in DOMAIN runs[t] :
        /\ runs[t][k].pc = "done"
        /\ \E j \in DOMAIN runs[t][k].segments : runs[t][k].segments[j].status = FAILED

C37_FailureStopsTask ==
  [][\A t \in TaskIds :
        FailedByWorker(t)
          => /\ tasks'[t].progress = tasks[t].progress
             /\ \A k \in DOMAIN runs[t] : \A i \in DOMAIN runs[t][k].workers :
                   /\ runs'[t][k].workers[i].pc = runs[t][k].workers[i].pc
                   /\ runs'[t][k].workers[i].downloaded = runs[t][k].workers[i].downloaded]_vars

\* C38: every create or start call eventually returns to its caller, also
\* when the task is paused or cancelled while its download is in progress:
\* a task being created is eventually created, and a download that was
\* started eventually lets `await downloader.start()` go on.
C38_CallsReturn ==
  /\ \A t \in 1..MaxTasks : (t \in creating) ~> (t \notin creating)
  /\ \A t \in 1..MaxTasks : \A k \in 1..MaxStarts :
        (t \in DOMAIN runs /\ k \in DOMAIN runs[t])
          ~> (t \in DOMAIN runs /\ k \in DOMAIN runs[t] /\ runs[t][k].pc = "done")

\* C39: once all pending saves have finished, the tasks file holds the
\* latest in-memory state of every task: of several saves in flight at
\* once, one carrying an older snapshot never overwrites a newer one.
C39_FileHoldsLatestState ==
  (storage.isInitialized /\ storage.pc = "done" /\ ops = {} /\ tasks # <<>>)
    => /\ storage.file.valid
       /\ DOMAIN storage.file.tasks = DOMAIN tasks
       /\ \A t \in DOMAIN tasks : storage.file.tasks[t] = Snapshot(tasks[t])

====
